---------------------------- MODULE SupergraphCache ----------------------------
(***************************************************************************)
(* GET /schema/supergraph and the cache in front of it.  Each process      *)
(* keeps one in its memory (src/helpers/middleware.ts): a miss composes    *)
(* the latest schemas and stores what it answers; a push or a deletion     *)
(* that comes in over HTTP deletes the entry of its own process with the   *)
(* end of its answer.  The mutations of the GraphQL API write the same     *)
(* tables behind the back of the cache.                                    *)
(*                                                                         *)
(* The tables are a version number: a write that is committed makes the    *)
(* next one.  What a write does to them is in Registry.                    *)
(***************************************************************************)
EXTENDS Integers

CONSTANTS
  Process,      \* the processes of the registry
  Handler,      \* the requests of a behaviour, each handled once
  Mutators,     \* those of them that are mutations of the GraphQL API
  MaxVersion,   \* how many writes are committed
  Broken        \* the versions whose schemas do not compose

ASSUME VersionAssumption == MaxVersion \in Nat /\ Broken \subseteq Nat

ASSUME MutatorAssumption == Mutators \subseteq Handler

VARIABLES
  version,   \* the committed version of the tables
  made,      \* made[p]: app.locals.cache exists
  stored,    \* stored[p]: what it holds for the key 'supergraph'
  pc,        \* pc[h]: the step request h does next
  proc,      \* proc[h]: the process that handles it
  hooked,    \* hooked[h]: its res.end was replaced by invalidate
  seen,      \* seen[h]: the versions a read composes, or a write made
  answer,    \* answer[h]: the status and the body request h was sent
  acked,     \* history: the last version a write of process p was answered for
  raced      \* history: a write of p was answered and left old data behind

tables   == <<version>>
memory   == <<made, stored>>
requests == <<pc, proc, hooked, seen, answer>>
history  == <<acked, raced>>
cacheVars == <<tables, memory, requests, history>>

\* A composition reads the active services first and their schemas then.
Snapshot == [names: Nat, rows: Nat]
NoSnapshot == [names |-> 0, rows |-> 0]

Nothing == [kind |-> "nothing"]

\* A body: a supergraph, or the message that there is none.
Body == [kind: {"supergraph", "message"}, of: Snapshot]

Answers == [status: {200, 400, 500}, body: Body \cup {Nothing}]
NoAnswer == [status |-> 0, body |-> Nothing]

CacheInit ==
  /\ version = 0
  /\ made = [p \in Process |-> FALSE]
  /\ stored = [p \in Process |-> Nothing]
  /\ pc = [h \in Handler |-> "idle"]
  /\ proc \in [Handler -> Process]
  /\ hooked = [h \in Handler |-> FALSE]
  /\ seen = [h \in Handler |-> NoSnapshot]
  /\ answer = [h \in Handler |-> NoAnswer]
  /\ acked = [p \in Process |-> 0]
  /\ raced = [p \in Process |-> FALSE]

Goto(h, from, to) == pc[h] = from /\ pc' = [pc EXCEPT ![h] = to]

Send(h, status, body) ==
  answer' = [answer EXCEPT ![h] = [status |-> status, body |-> body]]

\* Reads of process p that have begun to look at the tables.
Reading(p) == {h \in Handler : proc[h] = p /\ pc[h] \in {"rows", "respond"}}

------------------------------------------------------------------------------
(* GET /schema/supergraph: cache, then composeSupergraph.                  *)

\* The status of the answer that was stored is not kept: a hit is a success.
Hit(h) ==
  LET p == proc[h]
  IN  /\ h \notin Mutators /\ stored[p] # Nothing
      /\ Goto(h, "idle", "done")
      /\ Send(h, 200, stored[p])
      /\ UNCHANGED <<tables, memory, history, proc, hooked, seen>>

Miss(h) ==
  LET p == proc[h]
  IN  /\ h \notin Mutators /\ stored[p] = Nothing
      /\ Goto(h, "idle", "names")
      /\ made' = [made EXCEPT ![p] = TRUE]
      /\ UNCHANGED <<tables, stored, history, proc, hooked, seen, answer>>

\* getActiveServices
ReadNames(h) ==
  /\ Goto(h, "names", "rows")
  /\ seen' = [seen EXCEPT ![h].names = version]
  /\ UNCHANGED <<tables, memory, history, proc, hooked, answer>>

\* getSchemaLastUpdated
ReadRows(h) ==
  /\ Goto(h, "rows", "respond")
  /\ seen' = [seen EXCEPT ![h].rows = version]
  /\ UNCHANGED <<tables, memory, history, proc, hooked, answer>>

\* A statement that fails is answered by res.end, which stores nothing.
FailRead(h) ==
  /\ pc[h] \in {"names", "rows"}
  /\ Goto(h, pc[h], "done")
  /\ Send(h, 500, Nothing)
  /\ UNCHANGED <<tables, memory, history, proc, hooked, seen>>

\* Both the supergraph and the message of the error handler go through
\* res.send, which stores them.
Respond(h) ==
  LET broken == seen[h].rows \in Broken
      body   == [kind |-> IF broken THEN "message" ELSE "supergraph",
                 of |-> seen[h]]
  IN  /\ Goto(h, "respond", "done")
      /\ Send(h, IF broken THEN 400 ELSE 200, body)
      /\ stored' = [stored EXCEPT ![proc[h]] = body]
      /\ UNCHANGED <<tables, made, history, proc, hooked, seen>>

------------------------------------------------------------------------------
(* POST /schema/push, DELETE /schema/:id, DELETE /service/:name, and the   *)
(* mutations activateSchema and deactivateSchema.                          *)

\* Without a cache object there is nothing to hook up.
StartWrite(h) ==
  /\ h \notin Mutators
  /\ Goto(h, "idle", "write")
  /\ hooked' = [hooked EXCEPT ![h] = made[proc[h]]]
  /\ UNCHANGED <<tables, memory, history, proc, seen, answer>>

StartMutation(h) ==
  /\ h \in Mutators
  /\ Goto(h, "idle", "write")
  /\ UNCHANGED <<tables, memory, history, proc, hooked, seen, answer>>

\* The write is committed; an answer of the database that is lost makes it an
\* error all the same.
CommitWrite(h) ==
  /\ version < MaxVersion
  /\ \E to \in {"written", "failed"} : Goto(h, "write", to)
  /\ version' = version + 1
  /\ seen' = [seen EXCEPT ![h] = [names |-> version + 1, rows |-> version + 1]]
  /\ UNCHANGED <<memory, history, proc, hooked, answer>>

Refuse(h) ==
  /\ Goto(h, "write", "failed")
  /\ UNCHANGED <<tables, memory, history, proc, hooked, seen, answer>>

\* Faulty: only a success invalidates.
InvalidateOnSuccess(h) ==
  IF hooked[h] /\ pc[h] = "written"
  THEN stored' = [stored EXCEPT ![proc[h]] = Nothing]
  ELSE UNCHANGED stored

\* The res.end of invalidate, for every answer.
Invalidate(h) ==
  IF hooked[h] THEN stored' = [stored EXCEPT ![proc[h]] = Nothing]
               ELSE UNCHANGED stored

\* What the answer of h leaves behind in its process: an entry that was not
\* deleted, or a read that looked at the tables before.
LeftBehind(h) ==
  \/ Reading(proc[h]) # {}
  \/ ~hooked[h] /\ (stored[proc[h]] # Nothing \/ raced[proc[h]])

AnswerWrite(h) ==
  LET p == proc[h]
  IN  /\ pc[h] \in {"written", "failed"}
      /\ Goto(h, pc[h], "done")
      /\ Send(h, IF pc[h] = "written" THEN 200 ELSE 500, Nothing)
      /\ Invalidate(h)
      /\ acked' = [acked EXCEPT ![p] =
                     IF seen[h].rows > @ THEN seen[h].rows ELSE @]
      /\ raced' = [raced EXCEPT ![p] = LeftBehind(h)]
      /\ UNCHANGED <<tables, made, proc, hooked, seen>>

\* A process dies and is started again with an empty memory.
Restart(p) ==
  /\ made' = [made EXCEPT ![p] = FALSE]
  /\ stored' = [stored EXCEPT ![p] = Nothing]
  /\ pc' = [h \in Handler |-> IF proc[h] = p /\ pc[h] # "idle"
                              THEN "done" ELSE pc[h]]
  /\ raced' = [raced EXCEPT ![p] = FALSE]
  /\ UNCHANGED <<tables, proc, hooked, seen, answer, acked>>

CacheNext ==
  \/ \E h \in Handler :
       \/ Hit(h) \/ Miss(h) \/ ReadNames(h) \/ ReadRows(h) \/ FailRead(h)
       \/ Respond(h)
       \/ StartWrite(h) \/ StartMutation(h) \/ CommitWrite(h) \/ Refuse(h)
       \/ AnswerWrite(h)
  \/ \E p \in Process : Restart(p)

CacheSpec == CacheInit /\ [][CacheNext]_cacheVars

------------------------------------------------------------------------------
(* Properties.                                                             *)

\* Every variable holds a value of its kind (src/src/helpers/middleware.ts).
TypeOK ==
  /\ version \in 0..MaxVersion
  /\ made \in [Process -> BOOLEAN]
  /\ stored \in [Process -> Body \cup {Nothing}]
  /\ pc \in [Handler -> {"idle", "names", "rows", "respond", "write",
                          "written", "failed", "done"}]
  /\ proc \in [Handler -> Process]
  /\ hooked \in [Handler -> BOOLEAN]
  /\ seen \in [Handler -> Snapshot]
  /\ answer \in [Handler -> Answers \cup {NoAnswer}]
  /\ acked \in [Process -> Nat]
  /\ raced \in [Process -> BOOLEAN]

AsNewAs(snapshot, v) == snapshot.names >= v /\ snapshot.rows >= v

\* What a process serves from its cache is as new as every write it answered,
\* a failed one included, whatever reads and writes overlap and wherever a
\* process restarts.  There are two exceptions and no other: a read that looked
\* at the tables before the write was answered, and a write that no hook was
\* installed for, by GraphQL or before the first read.
FreshUnlessRaced ==
  \A p \in Process :
    ~raced[p] /\ stored[p] # Nothing => AsNewAs(stored[p].of, acked[p])

\* FreshUnlessRaced with what the reads in flight have to keep for it
\* (src/src/helpers/middleware.ts, cache and invalidate).
CacheInv ==
  /\ TypeOK
  /\ FreshUnlessRaced
  /\ \A p \in Process : acked[p] <= version
  /\ \A p \in Process : stored[p] # Nothing => made[p]
  /\ \A h \in Handler :
       /\ seen[h].names <= version /\ seen[h].rows <= version
       /\ pc[h] \in {"names", "rows", "respond"} => made[proc[h]]
       /\ pc[h] \in {"rows", "respond"} /\ ~raced[proc[h]]
            => seen[h].names >= acked[proc[h]]
       /\ pc[h] = "respond" /\ ~raced[proc[h]]
            => seen[h].rows >= acked[proc[h]]

=============================================================================
