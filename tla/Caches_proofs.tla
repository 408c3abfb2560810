----------------------------- MODULE Caches_proofs -----------------------------
(***************************************************************************)
(* Proofs about what a process keeps in its memory and answers from: the   *)
(* supergraph (SupergraphCache), for any number of processes, requests and *)
(* writes, and whichever versions do not compose; and the status of        *)
(* services (ServiceHealth), for any services and checks and any times.    *)
(***************************************************************************)
EXTENDS SupergraphCache, ServiceHealth, TLAPS

------------------------------------------------------------------------------
(* SupergraphCache                                                         *)

USE DEF tables, memory, requests, history, cacheVars

\* The program counter of one request moves, and no other.
LEMMA GotoFacts ==
  ASSUME TypeOK, NEW h \in Handler, NEW from, NEW to, Goto(h, from, to)
  PROVE  /\ pc[h] = from
         /\ pc' = [g \in Handler |-> IF g = h THEN to ELSE pc[g]]
  BY DEF TypeOK, Goto

\* Nothing is cached before the first read.
LEMMA InitCache == CacheInit => CacheInv
<1> SUFFICES ASSUME CacheInit PROVE CacheInv
  OBVIOUS
<1>1. TypeOK
  BY VersionAssumption
     DEF CacheInit, TypeOK, NoSnapshot, Snapshot, Answers, NoAnswer
<1>2. QED
  BY <1>1 DEF CacheInit, CacheInv, FreshUnlessRaced, NoSnapshot

\* The invariant survives the steps of a read.
LEMMA ReadInv ==
  ASSUME CacheInv, NEW h \in Handler,
         \/ Hit(h) \/ Miss(h) \/ ReadNames(h) \/ ReadRows(h) \/ FailRead(h)
         \/ Respond(h)
  PROVE  CacheInv'
<1> USE DEF CacheInv
<1>v. version \in Nat
  BY VersionAssumption DEF TypeOK
<1>b. \A s \in Snapshot : [kind |-> "supergraph", of |-> s] \in Body
                          /\ [kind |-> "message", of |-> s] \in Body
  BY DEF Body
<1>n. /\ \A s \in Snapshot, n \in Nat : /\ [s EXCEPT !.names = n] \in Snapshot
                                        /\ [s EXCEPT !.rows = n] \in Snapshot
      /\ NoAnswer \notin Answers
  BY DEF Snapshot, Answers, NoAnswer
<1>1. CASE Hit(h)
  <2>1. pc' = [g \in Handler |-> IF g = h THEN "done" ELSE pc[g]]
    BY <1>1, GotoFacts DEF Hit
  <2>2. TypeOK'
    BY <1>1, <2>1 DEF Hit, Send, TypeOK, Answers
  <2> QED
    BY <1>1, <2>1, <2>2 DEF Hit, FreshUnlessRaced, AsNewAs
<1>2. CASE Miss(h)
  <2>1. pc' = [g \in Handler |-> IF g = h THEN "names" ELSE pc[g]]
    BY <1>2, GotoFacts DEF Miss
  <2>2. TypeOK'
    BY <1>2, <2>1 DEF Miss, TypeOK
  <2> QED
    BY <1>2, <2>1, <2>2 DEF Miss, FreshUnlessRaced, AsNewAs, TypeOK
<1>3. CASE ReadNames(h)
  <2>1. /\ pc[h] = "names"
        /\ pc' = [g \in Handler |-> IF g = h THEN "rows" ELSE pc[g]]
    BY <1>3, GotoFacts DEF ReadNames
  <2>2. TypeOK'
    BY <1>3, <1>v, <1>n, <2>1 DEF ReadNames, TypeOK
  <2>3. /\ seen'[h].names = version /\ seen'[h].rows = seen[h].rows
        /\ \A g \in Handler \ {h} : seen'[g] = seen[g]
    BY <1>3 DEF ReadNames, TypeOK, Snapshot
  <2> QED
    BY <1>3, <1>v, <2>1, <2>2, <2>3
       DEF ReadNames, FreshUnlessRaced, AsNewAs, TypeOK
<1>4. CASE ReadRows(h)
  <2>1. /\ pc[h] = "rows"
        /\ pc' = [g \in Handler |-> IF g = h THEN "respond" ELSE pc[g]]
    BY <1>4, GotoFacts DEF ReadRows
  <2>2. TypeOK'
    BY <1>4, <1>v, <1>n, <2>1 DEF ReadRows, TypeOK
  <2>3. /\ seen'[h].rows = version /\ seen'[h].names = seen[h].names
        /\ \A g \in Handler \ {h} : seen'[g] = seen[g]
    BY <1>4 DEF ReadRows, TypeOK, Snapshot
  <2> QED
    BY <1>4, <1>v, <2>1, <2>2, <2>3
       DEF ReadRows, FreshUnlessRaced, AsNewAs, TypeOK
<1>5. CASE FailRead(h)
  <2>1. pc' = [g \in Handler |-> IF g = h THEN "done" ELSE pc[g]]
    BY <1>5, GotoFacts DEF FailRead
  <2>2. TypeOK'
    BY <1>5, <2>1 DEF FailRead, Send, TypeOK, Answers
  <2> QED
    BY <1>5, <2>1, <2>2 DEF FailRead, FreshUnlessRaced, AsNewAs
<1>6. CASE Respond(h)
  <2>1. /\ pc[h] = "respond"
        /\ pc' = [g \in Handler |-> IF g = h THEN "done" ELSE pc[g]]
    BY <1>6, GotoFacts DEF Respond
  <2>2. PICK body \in Body, sent \in {200, 400} :
          /\ body.of = seen[h]
          /\ stored' = [stored EXCEPT ![proc[h]] = body]
          /\ Send(h, sent, body)
    BY <1>6, <1>b DEF Respond, TypeOK
  <2>3. [status |-> sent, body |-> body] \in Answers
    BY DEF Answers
  <2>4. TypeOK'
    BY <1>6, <2>1, <2>2, <2>3 DEF Respond, Send, TypeOK
  <2>5. \A p \in Process : stored'[p] = IF p = proc[h] THEN body ELSE stored[p]
    BY <2>2 DEF TypeOK
  <2>6. FreshUnlessRaced'
    BY <1>6, <2>1, <2>2, <2>5 DEF Respond, FreshUnlessRaced, AsNewAs
  <2> QED
    BY <1>6, <2>1, <2>4, <2>5, <2>6 DEF Respond
<1> QED
  BY <1>1, <1>2, <1>3, <1>4, <1>5, <1>6

\* The invariant survives the steps of a write: the answer either finds no old
\* data, or is recorded as a race.
LEMMA WriteInv ==
  ASSUME CacheInv, NEW h \in Handler,
         \/ StartWrite(h) \/ StartMutation(h) \/ CommitWrite(h) \/ Refuse(h)
         \/ AnswerWrite(h)
  PROVE  CacheInv'
<1> USE DEF CacheInv
<1>v. version \in Nat
  BY VersionAssumption DEF TypeOK
<1>1. CASE StartWrite(h) \/ StartMutation(h) \/ Refuse(h)
  <2>1. PICK to \in {"write", "failed"} :
          pc' = [g \in Handler |-> IF g = h THEN to ELSE pc[g]]
    BY <1>1, GotoFacts DEF StartWrite, StartMutation, Refuse
  <2>2. hooked' \in [Handler -> BOOLEAN]
    BY <1>1 DEF StartWrite, StartMutation, Refuse, TypeOK
  <2>3. UNCHANGED <<version, made, stored, proc, seen, answer, acked, raced>>
    BY <1>1 DEF StartWrite, StartMutation, Refuse
  <2>4. TypeOK'
    BY <2>1, <2>2, <2>3 DEF TypeOK
  <2> QED
    BY <2>1, <2>3, <2>4 DEF FreshUnlessRaced, AsNewAs
<1>2. CASE CommitWrite(h)
  <2>1. PICK to \in {"written", "failed"} :
          pc' = [g \in Handler |-> IF g = h THEN to ELSE pc[g]]
    BY <1>2, GotoFacts DEF CommitWrite
  <2>2. /\ version' = version + 1 /\ version' \in 0..MaxVersion
        /\ [names |-> version + 1, rows |-> version + 1] \in Snapshot
    BY <1>2, <1>v, VersionAssumption DEF CommitWrite, Snapshot
  <2>3. TypeOK'
    BY <1>2, <2>1, <2>2 DEF CommitWrite, TypeOK
  <2>4. \A g \in Handler : seen'[g] = IF g = h
          THEN [names |-> version + 1, rows |-> version + 1] ELSE seen[g]
    BY <1>2 DEF CommitWrite, TypeOK
  <2>a. \A p \in Process : acked[p] \in Nat /\ acked[p] <= version
    BY DEF TypeOK
  <2>5. \A p \in Process : acked[p] <= version + 1
    <3> SUFFICES ASSUME NEW p \in Process PROVE acked[p] <= version + 1
      OBVIOUS
    <3>1. acked[p] \in Nat /\ acked[p] <= version
      BY <2>a
    <3> QED
      BY <1>v, <3>1
  <2>6. \A g \in Handler : /\ seen[g].names <= version + 1
                           /\ seen[g].rows <= version + 1
    BY <1>v DEF TypeOK, Snapshot
  <2>7. \A g \in Handler : /\ seen'[g].names <= version + 1
                           /\ seen'[g].rows <= version + 1
    BY <1>v, <2>4, <2>6
  <2> QED
    BY <1>2, <2>1, <2>2, <2>3, <2>4, <2>5, <2>6, <2>7
       DEF CommitWrite, FreshUnlessRaced, AsNewAs
<1>3. CASE AnswerWrite(h)
  <2> DEFINE p == proc[h]
             last == IF seen[h].rows > acked[p] THEN seen[h].rows ELSE acked[p]
  <2>1. pc' = [g \in Handler |-> IF g = h THEN "done" ELSE pc[g]]
    BY <1>3, GotoFacts DEF AnswerWrite
  <2>2. /\ stored' \in [Process -> Body \cup {Nothing}]
        /\ hooked[h] => stored' = [stored EXCEPT ![p] = Nothing]
        /\ ~hooked[h] => stored' = stored
    BY <1>3 DEF AnswerWrite, Invalidate, TypeOK
  <2>3. /\ acked' = [acked EXCEPT ![p] = last] /\ last \in Nat
        /\ last <= version
    BY <1>3, <1>v DEF AnswerWrite, TypeOK, Snapshot
  <2>4. /\ raced' = [raced EXCEPT ![p] = LeftBehind(h)]
        /\ LeftBehind(h) \in BOOLEAN
    BY <1>3 DEF AnswerWrite, LeftBehind, TypeOK
  <2>5. answer' \in [Handler -> Answers \cup {NoAnswer}]
    BY <1>3 DEF AnswerWrite, Send, Answers, TypeOK
  <2>p. p \in Process
    BY DEF TypeOK
  <2>c. acked' \in [Process -> Nat] /\ raced' \in [Process -> BOOLEAN]
    <3> HIDE DEF p, last
    <3> QED
      BY <2>3, <2>4 DEF TypeOK
  <2>d. UNCHANGED <<version, made, proc, hooked, seen>>
    BY <1>3 DEF AnswerWrite
  <2>6. TypeOK'
    BY <2>1, <2>2, <2>5, <2>c, <2>d DEF TypeOK
  <2>7. ~LeftBehind(h) => /\ stored'[p] = Nothing
                          /\ Reading(p) = {}
    <3>1. CASE hooked[h]
      <4>1. stored'[p] = Nothing
        BY <2>2, <2>p, <3>1 DEF TypeOK
      <4> QED
        BY <4>1 DEF LeftBehind
    <3>2. CASE ~hooked[h]
      BY <2>2, <3>2 DEF LeftBehind
    <3> QED
      BY <3>1, <3>2
  <2>e. \A q \in Process : q # p => /\ acked'[q] = acked[q]
                                    /\ raced'[q] = raced[q]
                                    /\ stored'[q] = stored[q]
    BY <2>2, <2>3, <2>4 DEF TypeOK
  <2>f. raced'[p] = LeftBehind(h)
    BY <2>4, <2>p DEF TypeOK
  <2>8. FreshUnlessRaced'
    <3> HIDE DEF p
    <3> QED
      BY <2>p, <2>e, <2>f, <2>7 DEF FreshUnlessRaced, AsNewAs
  <2>9. \A g \in Handler : pc'[g] \in {"rows", "respond"} =>
          /\ pc[g] = pc'[g]
          /\ proc[g] = p => raced'[p]
    BY <2>1, <2>4, <2>7 DEF Reading, TypeOK
  <2>11. \A q \in Process : acked'[q] <= version
    BY <2>3, <2>e DEF TypeOK
  <2>12. \A q \in Process : stored'[q] # Nothing => made[q]
    BY <2>2 DEF TypeOK
  <2>13. \A g \in Handler : proc[g] \in Process
    BY DEF TypeOK
  <2>15. \A g \in Handler :
           /\ pc'[g] \in {"names", "rows", "respond"} => made[proc[g]]
           /\ pc'[g] \in {"rows", "respond"} /\ ~raced'[proc[g]]
                => seen[g].names >= acked'[proc[g]]
           /\ pc'[g] = "respond" /\ ~raced'[proc[g]]
                => seen[g].rows >= acked'[proc[g]]
    BY <2>1, <2>9, <2>e, <2>13
  <2> HIDE DEF p, last
  <2> QED
    BY <2>6, <2>8, <2>11, <2>12, <2>d, <2>15
<1> QED
  BY <1>1, <1>2, <1>3

\* A restarted process has no cache and no reads in flight.
LEMMA RestartInv == ASSUME CacheInv, NEW p \in Process, Restart(p)
                    PROVE  CacheInv'
<1> USE DEF CacheInv
<1>1. \A h \in Handler :
        pc'[h] = IF proc[h] = p /\ pc[h] # "idle" THEN "done" ELSE pc[h]
  BY DEF Restart
<1>2. TypeOK'
  BY <1>1 DEF Restart, TypeOK
<1>3. /\ stored'[p] = Nothing
      /\ \A q \in Process \ {p} : /\ stored'[q] = stored[q]
                                  /\ raced'[q] = raced[q] /\ made'[q] = made[q]
  BY DEF Restart, TypeOK
<1>4. FreshUnlessRaced'
  BY <1>3 DEF Restart, FreshUnlessRaced, AsNewAs
<1>5. \A h \in Handler : pc'[h] \in {"names", "rows", "respond"} =>
        pc'[h] = pc[h] /\ proc[h] \in Process \ {p}
  BY <1>1 DEF TypeOK
<1> QED
  BY <1>2, <1>3, <1>4, <1>5 DEF Restart

\* The invariant holds in every reachable state
\* (src/src/helpers/middleware.ts, cache and invalidate).
THEOREM CacheInvariance == CacheSpec => []CacheInv
<1>1. CacheInv /\ [CacheNext]_cacheVars => CacheInv'
  <2> SUFFICES ASSUME CacheInv, [CacheNext]_cacheVars PROVE CacheInv'
    OBVIOUS
  <2>1. CASE UNCHANGED cacheVars
    BY <2>1 DEF CacheInv, TypeOK, FreshUnlessRaced, AsNewAs
  <2>2. CASE CacheNext
    BY <2>2, ReadInv, WriteInv, RestartInv DEF CacheNext
  <2> QED
    BY <2>1, <2>2
<1> QED
  BY <1>1, InitCache, PTL DEF CacheSpec

\* Every variable of the caches and the requests keeps its type, so that what is
\* cached is always a body that was sent (src/src/helpers/middleware.ts).
THEOREM CacheTypes == CacheSpec => []TypeOK
<1>1. CacheInv => TypeOK
  BY DEF CacheInv
<1> QED
  BY <1>1, CacheInvariance, PTL

\* A cached supergraph is as new as every write its process answered, unless a
\* read overlapped that answer or the write had no hook.
THEOREM CacheFreshness == CacheSpec => []FreshUnlessRaced
<1>1. CacheInv => FreshUnlessRaced
  BY DEF CacheInv
<1> QED
  BY <1>1, CacheInvariance, PTL

------------------------------------------------------------------------------
(* ServiceHealth                                                           *)

USE DEF cache, probes, checks, healthVars

LEMMA InitHealth == HealthInit => HealthInv
  BY DEF HealthInit, HealthInv, HealthTypeOK, ProbesInv, AnswersInv, RecentAnswer, Status

\* What is not expired is there, and was seen less than Ttl ago.
LEMMA FreshSeen ==
  ASSUME HealthTypeOK, NEW u \in Url, Fresh(u)
  PROVE  /\ healthCache[u].status \in Status /\ healthCache[u].expiresAt \in Nat
         /\ SeenAt(u) \in Int /\ SeenAt(u) > now - Ttl
  BY TimeAssumption DEF HealthTypeOK, Fresh, SeenAt

LEMMA HitHealth ==
  ASSUME HealthInv, NEW k \in Check, HitStatus(k)
  PROVE  HealthInv'
<1> USE DEF HealthInv, HitStatus, ComesIn
<1> DEFINE u == url[k]
<1>1. u \in Url /\ now \in Nat
  BY DEF HealthTypeOK
<1>2. /\ healthCache[u].status \in Status /\ SeenAt(u) \in Int
      /\ SeenAt(u) > now - Ttl /\ healthCache[u] # NoStatus
  BY <1>1, FreshSeen DEF Fresh
<1>3. finding'[k] = [status |-> healthCache[u].status, at |-> SeenAt(u)]
  BY DEF HealthTypeOK
<1>4. HealthTypeOK'
  BY <1>2 DEF HealthTypeOK
<1>5. ProbesInv'
  BY DEF HealthTypeOK, ProbesInv
<1>6. AnswersInv'
  BY <1>2, <1>3 DEF HealthTypeOK, AnswersInv, SeenAt
<1>7. RecentAnswer'
  <2>1. /\ step'[k] = "done" /\ asked'[k] = now
        /\ \A o \in Check : o # k => /\ step'[o] = step[o] /\ asked'[o] = asked[o]
                                     /\ finding'[o] = finding[o]
    BY DEF HealthTypeOK
  <2>2. finding'[k].at > asked'[k] - Ttl
    BY <1>2, <1>3, <2>1
  <2>3. \A o \in Check : /\ step'[o] = "done" /\ url[o] = u
                         /\ finding'[o].at = finding'[k].at
                         => finding'[o].status = finding'[k].status
    BY <1>3, <2>1 DEF AnswersInv
  <2> QED
    BY <2>1, <2>2, <2>3 DEF RecentAnswer
<1> QED
  BY <1>4, <1>5, <1>6, <1>7

LEMMA JoinHealth ==
  ASSUME HealthInv, NEW k \in Check, Join(k)
  PROVE  HealthInv'
<1> USE DEF HealthInv, Join, ComesIn
<1>1. HealthTypeOK' /\ ProbesInv'
  BY DEF HealthTypeOK, ProbesInv
<1>2. AnswersInv' /\ RecentAnswer'
  BY DEF HealthTypeOK, AnswersInv, RecentAnswer, SeenAt
<1> QED
  BY <1>1, <1>2

\* An entry that is not used has expired.
LEMMA StaleExpired ==
  ASSUME HealthTypeOK, NEW u \in Url, ~Fresh(u)
  PROVE  healthCache[u].expiresAt <= now
  BY DEF HealthTypeOK, Fresh, NoStatus

LEMMA StartHealth ==
  ASSUME HealthInv, NEW k \in Check, Start(k)
  PROVE  HealthInv'
<1> USE DEF HealthInv, Start, ComesIn
<1>1. url[k] \in Url /\ now \in Nat
  BY DEF HealthTypeOK
<1>2. healthCache[url[k]].expiresAt <= now
  BY <1>1, StaleExpired
<1>3. HealthTypeOK'
  BY <1>1, TimeAssumption DEF HealthTypeOK, Status
<1>4. ProbesInv'
  BY <1>1, <1>2, TimeAssumption DEF HealthTypeOK, ProbesInv
<1>5. AnswersInv' /\ RecentAnswer'
  BY DEF HealthTypeOK, AnswersInv, RecentAnswer, SeenAt
<1> QED
  BY <1>3, <1>4, <1>5

\* The entry that is replaced was seen earlier.
LEMMA StoreHealth ==
  ASSUME HealthInv, NEW u \in Url, Store(u)
  PROVE  HealthInv'
<1> USE DEF HealthInv, Store
<1>1. now \in Nat /\ status[u] \in Status /\ Ttl \in Nat \ {0}
  BY TimeAssumption DEF HealthTypeOK
<1>2. healthCache'[u] = [status |-> status[u], expiresAt |-> now + Ttl]
  BY DEF HealthTypeOK
<1>3. \A v \in Url : v # u => healthCache'[v] = healthCache[v]
  BY DEF HealthTypeOK
<1>4. HealthTypeOK'
  BY <1>1 DEF HealthTypeOK
<1>5. ProbesInv'
  BY <1>2, <1>3 DEF HealthTypeOK, ProbesInv
<1>6. AnswersInv'
  <2> SUFFICES ASSUME NEW k \in Check, step[k] = "done"
               PROVE  /\ healthCache'[url[k]] # NoStatus
                      /\ finding[k].status \in Status
                      /\ finding[k].at <= SeenAt(url[k])'
                      /\ finding[k].at = SeenAt(url[k])'
                           => finding[k].status = healthCache'[url[k]].status
    BY DEF AnswersInv
  <2>1. /\ url[k] \in Url /\ finding[k].status \in Status
        /\ finding[k].at \in Int /\ finding[k].at <= SeenAt(url[k])
    BY DEF AnswersInv, HealthTypeOK, NoFinding
  <2>2. CASE url[k] # u
    BY <1>3, <2>1, <2>2 DEF AnswersInv, SeenAt
  <2>3. CASE url[k] = u
    <3>1. SeenAt(u)' = now
      BY <1>1, <1>2 DEF SeenAt
    <3>2. healthCache[u].expiresAt <= now /\ healthCache[u].expiresAt \in Nat
      BY DEF ProbesInv, HealthTypeOK, NoStatus
    <3>3. finding[k].at < now
      BY <1>1, <2>1, <2>3, <3>2 DEF SeenAt
    <3>4. healthCache'[u] # NoStatus
      BY <1>1, <1>2 DEF NoStatus, Status
    <3> QED
      BY <1>1, <2>1, <2>3, <3>1, <3>3, <3>4
  <2> QED
    BY <2>2, <2>3
<1>7. RecentAnswer'
  BY DEF RecentAnswer
<1> QED
  BY <1>4, <1>5, <1>6, <1>7

\* All who wait are answered what was just stored.
LEMMA SettleHealth ==
  ASSUME HealthInv, NEW u \in Url, Settle(u)
  PROVE  HealthInv'
<1> USE DEF HealthInv, Settle
<1>1. now \in Nat /\ status[u] \in Status /\ Ttl \in Nat \ {0}
  BY TimeAssumption DEF HealthTypeOK
<1>2. healthCache[u] = [status |-> status[u], expiresAt |-> now + Ttl]
  BY DEF ProbesInv
<1>3. SeenAt(u) = now /\ healthCache[u] # NoStatus
  BY <1>1, <1>2 DEF SeenAt, NoStatus, Status
<1>4. \A k \in Waiting(u) : /\ k \in Check /\ url[k] = u /\ step'[k] = "done"
                            /\ finding'[k] = [status |-> status[u], at |-> now]
                            /\ asked[k] <= now /\ asked[k] \in Nat
  BY DEF Waiting, ProbesInv, HealthTypeOK
<1>5. \A k \in Check \ Waiting(u) : step'[k] = step[k] /\ finding'[k] = finding[k]
  OBVIOUS
<1>6. HealthTypeOK'
  BY <1>1 DEF HealthTypeOK, Waiting
<1>7. ProbesInv'
  BY DEF HealthTypeOK, ProbesInv, Waiting
<1>8. AnswersInv'
  <2> SUFFICES ASSUME NEW k \in Check, step'[k] = "done"
               PROVE  /\ healthCache[url[k]] # NoStatus
                      /\ finding'[k].status \in Status
                      /\ finding'[k].at <= SeenAt(url[k])
                      /\ finding'[k].at = SeenAt(url[k])
                           => finding'[k].status = healthCache[url[k]].status
    BY DEF AnswersInv, SeenAt
  <2>1. CASE k \in Waiting(u)
    BY <1>1, <1>2, <1>3, <1>4, <2>1
  <2>2. CASE k \notin Waiting(u)
    BY <1>5, <2>2 DEF AnswersInv
  <2> QED
    BY <2>1, <2>2
<1>9. RecentAnswer'
  <2>1. ASSUME NEW k \in Check, step'[k] = "done"
        PROVE  finding'[k].at > asked[k] - Ttl
    <3>1. CASE k \in Waiting(u)
      <4>1. finding'[k].at = now /\ asked[k] <= now /\ asked[k] \in Nat
        BY <1>4, <3>1
      <4> QED
        BY <1>1, <4>1
    <3>2. CASE k \notin Waiting(u)
      BY <1>5, <2>1, <3>2 DEF RecentAnswer
    <3> QED
      BY <3>1, <3>2
  <2>2. ASSUME NEW k \in Check, NEW o \in Check, step'[k] = "done", step'[o] = "done",
               url[o] = url[k], finding'[o].at = finding'[k].at
        PROVE  finding'[o].status = finding'[k].status
    <3> \A p \in Check \ Waiting(u) :
          step'[p] = "done" /\ url[p] = u /\ finding'[p].at = now
            => finding'[p].status = status[u]
      BY <1>2, <1>3, <1>5 DEF AnswersInv
    <3>1. CASE k \in Waiting(u) /\ o \in Waiting(u)
      BY <1>4, <3>1
    <3>2. CASE k \in Waiting(u) /\ o \notin Waiting(u)
      BY <1>4, <2>2, <3>2
    <3>3. CASE k \notin Waiting(u) /\ o \in Waiting(u)
      BY <1>4, <2>2, <3>3
    <3>4. CASE k \notin Waiting(u) /\ o \notin Waiting(u)
      BY <1>5, <2>2, <3>4 DEF RecentAnswer
    <3> QED
      BY <3>1, <3>2, <3>3, <3>4
  <2> QED
    BY <2>1, <2>2 DEF RecentAnswer
<1> QED
  BY <1>6, <1>7, <1>8, <1>9

\* The end of a request changes nothing but the probe.
LEMMA AnsweredHealth ==
  ASSUME HealthInv, NEW u \in Url,
         probe[u] = "request",
         probe' = [probe EXCEPT ![u] = "answered"],
         \E found \in Status : status' = [status EXCEPT ![u] = found],
         UNCHANGED <<now, cache, deadline, checks>>
  PROVE  HealthInv'
<1> USE DEF HealthInv
<1>1. PICK found \in Status : status' = [status EXCEPT ![u] = found]
  OBVIOUS
<1>2. HealthTypeOK' /\ ProbesInv'
  BY <1>1 DEF HealthTypeOK, ProbesInv
<1>3. AnswersInv' /\ RecentAnswer'
  BY <1>1 DEF AnswersInv, RecentAnswer, SeenAt
<1> QED
  BY <1>2, <1>3

LEMMA TickHealth ==
  ASSUME HealthInv, Tick
  PROVE  HealthInv'
<1> USE DEF HealthInv, Tick
<1>1. now \in Nat /\ now' = now + 1
  BY DEF HealthTypeOK
<1>2. HealthTypeOK'
  BY <1>1 DEF HealthTypeOK
<1>3. ProbesInv'
  <2>1. \A u \in Url : /\ deadline[u] \in Nat
                       /\ healthCache[u].expiresAt \in Nat
                       /\ probe[u] \in {"none", "request"}
    BY DEF HealthTypeOK, NoStatus
  <2>2. \A k \in Check : asked[k] \in Nat
    BY DEF HealthTypeOK
  <2>3. \A u \in Url : probe[u] = "request" =>
          now' <= deadline[u] /\ healthCache[u].expiresAt <= now'
    BY <1>1, <2>1 DEF ProbesInv, HealthTypeOK
  <2>4. \A k \in Check : step[k] = "waiting" => /\ probe[url[k]] # "none"
                                              /\ asked[k] <= now'
    BY <1>1, <2>2 DEF ProbesInv
  <2> QED
    BY <2>1, <2>3, <2>4 DEF ProbesInv
<1>4. AnswersInv' /\ RecentAnswer'
  BY DEF AnswersInv, RecentAnswer, SeenAt
<1> QED
  BY <1>2, <1>3, <1>4

LEMMA StepHealth == HealthInv /\ [HealthNext]_healthVars => HealthInv'
<1> SUFFICES ASSUME HealthInv, [HealthNext]_healthVars
             PROVE  HealthInv'
  OBVIOUS
<1>1. ASSUME NEW k \in Check, HitStatus(k)
      PROVE  HealthInv'
  BY <1>1, HitHealth
<1>2. ASSUME NEW k \in Check, Join(k)
      PROVE  HealthInv'
  BY <1>2, JoinHealth
<1>3. ASSUME NEW k \in Check, Start(k)
      PROVE  HealthInv'
  BY <1>3, StartHealth
<1>4. ASSUME NEW u \in Url, Store(u)
      PROVE  HealthInv'
  BY <1>4, StoreHealth
<1>5. ASSUME NEW u \in Url, Settle(u)
      PROVE  HealthInv'
  BY <1>5, SettleHealth
<1>6. ASSUME NEW u \in Url, Abort(u)
      PROVE  HealthInv'
  BY <1>6, AnsweredHealth DEF Abort, Status
<1>7. ASSUME NEW u \in Url, NEW found \in {"UP", "DOWN"}, ServiceAnswers(u, found)
      PROVE  HealthInv'
  BY <1>7, AnsweredHealth DEF ServiceAnswers, Status
<1>8. CASE Tick
  BY <1>8, TickHealth
<1>9. CASE UNCHANGED healthVars
  BY <1>9 DEF HealthInv, HealthTypeOK, ProbesInv, AnswersInv, RecentAnswer, SeenAt
<1> QED
  BY <1>1, <1>2, <1>3, <1>4, <1>5, <1>6, <1>7, <1>8, <1>9 DEF HealthNext

\* The probes, the cache and the answers always fit together
\* (src/src/graphql/service-health.ts:77).
THEOREM HealthInvariance == HealthSpec => []HealthInv
<1>1. HealthInit => HealthInv
  BY InitHealth
<1>2. HealthInv /\ [HealthNext]_healthVars => HealthInv'
  BY StepHealth
<1> QED
  BY <1>1, <1>2, PTL DEF HealthSpec

\* Every variable of the probes, the cache and the checks keeps its type
\* (src/src/graphql/service-health.ts).
THEOREM HealthTypes == HealthSpec => []HealthTypeOK
<1>1. HealthInv => HealthTypeOK
  BY DEF HealthInv
<1> QED
  BY <1>1, HealthInvariance, PTL

\* No check is answered a status that is older than its time to live, and checks
\* that share one agree.
THEOREM Recency == HealthSpec => []RecentAnswer
<1>1. HealthInv => RecentAnswer
  BY DEF HealthInv
<1> QED
  BY <1>1, HealthInvariance, PTL

==============================================================================
