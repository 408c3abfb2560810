----------------------------- MODULE ServiceHealth -----------------------------
(***************************************************************************)
(* Whether a service is up (src/graphql/service-health.ts).  A check asks  *)
(* the service, which may answer anything, or nothing until the check is   *)
(* aborted.  Checks of one url share the request that is under way, and    *)
(* for a while after it what it found.                                     *)
(*                                                                         *)
(* What follows an answer runs in microtasks: time stands still, but other *)
(* checks may come between them.  A timer is taken to be on time.          *)
(***************************************************************************)
EXTENDS Integers

CONSTANTS
  Url,
  BadUrl,     \* the urls that no request can be made to
  Check,      \* the calls of getServiceHealthStatus, each for one url
  Ttl,        \* how long a status is kept
  Timeout,    \* how long a request may take
  MaxTime     \* when the last check comes in

ASSUME UrlAssumption == BadUrl \subseteq Url

ASSUME TimeAssumption ==
  Ttl \in Nat \ {0} /\ Timeout \in Nat \ {0} /\ MaxTime \in Nat

VARIABLES
  now,
  healthCache,  \* healthCache[u]: the status of u and when it expires
  probe,        \* probe[u]: the step of the probe in inFlightChecks, if any
  deadline,     \* deadline[u]: when it is aborted
  status,       \* status[u]: what it found
  step,         \* step[k]: whether check k waits for a probe
  url,          \* url[k]: the url of check k
  asked,        \* asked[k]: when it came in
  finding       \* finding[k]: the status it was answered, and when that was seen

cache  == <<healthCache>>
probes == <<probe, deadline, status>>
checks == <<step, url, asked, finding>>
healthVars == <<now, cache, probes, checks>>

NoStatus == [status |-> "none", expiresAt |-> 0]
NoFinding == [status |-> "none", at |-> 0]

HealthInit ==
  /\ now = 0
  /\ healthCache = [u \in Url |-> NoStatus]
  /\ probe = [u \in Url |-> "none"]
  /\ deadline = [u \in Url |-> 0]
  /\ status = [u \in Url |-> "DOWN"]
  /\ step = [k \in Check |-> "idle"]
  /\ url \in [Check -> Url]
  /\ asked = [k \in Check |-> 0]
  /\ finding = [k \in Check |-> NoFinding]

\* Faulty: an expired entry is used once more.
FreshToTheEnd(u) ==
  healthCache[u] # NoStatus /\ healthCache[u].expiresAt >= now

Fresh(u) == healthCache[u] # NoStatus /\ healthCache[u].expiresAt > now

\* When the status in the cache was seen.
SeenAt(u) == healthCache[u].expiresAt - Ttl

ComesIn(k, to) ==
  /\ step[k] = "idle" /\ now <= MaxTime
  /\ step' = [step EXCEPT ![k] = to]
  /\ asked' = [asked EXCEPT ![k] = now]

------------------------------------------------------------------------------
(* getServiceHealthStatus                                                  *)

HitStatus(k) ==
  /\ ComesIn(k, "done")
  /\ Fresh(url[k])
  /\ finding' = [finding EXCEPT ![k] = [status |-> healthCache[url[k]].status,
                                      at |-> SeenAt(url[k])]]
  /\ UNCHANGED <<now, cache, probes, url>>

\* The check waits for the request that is under way.
Join(k) ==
  /\ ComesIn(k, "waiting")
  /\ ~Fresh(url[k]) /\ probe[url[k]] # "none"
  /\ UNCHANGED <<now, cache, probes, url, finding>>

\* A request is made, or there is no url to make it to.
Start(k) ==
  LET u == url[k]
  IN  /\ ComesIn(k, "waiting")
      /\ ~Fresh(u) /\ probe[u] = "none"
      /\ probe' = [probe EXCEPT ![u] =
                     IF u \in BadUrl THEN "answered" ELSE "request"]
      /\ deadline' = [deadline EXCEPT ![u] = now + Timeout]
      /\ status' = [status EXCEPT ![u] = "DOWN"]
      /\ UNCHANGED <<now, cache, url, finding>>

\* then
Store(u) ==
  /\ probe[u] = "answered"
  /\ probe' = [probe EXCEPT ![u] = "stored"]
  /\ healthCache' = [healthCache EXCEPT ![u] =
       [status |-> status[u], expiresAt |-> now + Ttl]]
  /\ UNCHANGED <<now, deadline, status, checks>>

Waiting(u) == {k \in Check : step[k] = "waiting" /\ url[k] = u}

\* finally, and the promise is resolved for all who wait.
Settle(u) ==
  /\ probe[u] = "stored"
  /\ probe' = [probe EXCEPT ![u] = "none"]
  /\ step' = [k \in Check |-> IF k \in Waiting(u) THEN "done" ELSE step[k]]
  /\ finding' = [k \in Check |-> IF k \in Waiting(u)
                                THEN [status |-> status[u], at |-> now]
                                ELSE finding[k]]
  /\ UNCHANGED <<now, cache, deadline, status, url, asked>>

------------------------------------------------------------------------------
(* probeService                                                            *)

\* An answer below 500 is UP, any other and a failed connection is DOWN.
ServiceAnswers(u, found) ==
  /\ probe[u] = "request"
  /\ probe' = [probe EXCEPT ![u] = "answered"]
  /\ status' = [status EXCEPT ![u] = found]
  /\ UNCHANGED <<now, cache, deadline, checks>>

\* Faulty: the request does not hear of it.
AbortUnheard(u) ==
  probe[u] = "request" /\ now >= deadline[u] /\ UNCHANGED healthVars

Abort(u) ==
  /\ probe[u] = "request" /\ now >= deadline[u]
  /\ probe' = [probe EXCEPT ![u] = "answered"]
  /\ status' = [status EXCEPT ![u] = "DOWN"]
  /\ UNCHANGED <<now, cache, deadline, checks>>

\* After the last check, time goes on as long as a request is under way.
Tick ==
  /\ \A u \in Url : \/ probe[u] = "none"
                    \/ probe[u] = "request" /\ now < deadline[u]
  /\ now <= MaxTime \/ \E u \in Url : probe[u] = "request"
  /\ now' = now + 1
  /\ UNCHANGED <<cache, probes, checks>>

HealthNext ==
  \/ \E k \in Check : HitStatus(k) \/ Join(k) \/ Start(k)
  \/ \E u \in Url :
       \/ Store(u) \/ Settle(u) \/ Abort(u)
       \/ \E found \in {"UP", "DOWN"} : ServiceAnswers(u, found)
  \/ Tick

HealthSpec == HealthInit /\ [][HealthNext]_healthVars

\* Time passes, timers fire and microtasks run.  A service need not answer, and
\* nobody need ask.
FairSpec ==
  /\ HealthSpec
  /\ WF_healthVars(Tick)
  /\ \A u \in Url : WF_healthVars(Abort(u)) /\ WF_healthVars(Store(u)) /\ WF_healthVars(Settle(u))

------------------------------------------------------------------------------
(* Properties.                                                             *)

Status == {"UP", "DOWN"}

\* Every variable holds a value of its kind (src/src/graphql/service-health.ts).
HealthTypeOK ==
  /\ now \in Nat
  /\ healthCache \in [Url -> [status: Status, expiresAt: Nat] \cup {NoStatus}]
  /\ probe \in [Url -> {"none", "request", "answered", "stored"}]
  /\ deadline \in [Url -> Nat]
  /\ status \in [Url -> Status]
  /\ step \in [Check -> {"idle", "waiting", "done"}]
  /\ url \in [Check -> Url]
  /\ asked \in [Check -> Nat]
  /\ finding \in [Check -> [status: Status, at: Int] \cup {NoFinding}]

\* A status is never older than its time to live when it is asked for, whether
\* it comes from the cache or from a request that another check made, and two
\* checks answered what was seen at one time are answered the same
\* (src/src/graphql/service-health.ts:77).
RecentAnswer ==
  \A k \in Check : step[k] = "done" =>
    /\ finding[k].at > asked[k] - Ttl
    /\ \A o \in Check :
         step[o] = "done" /\ url[o] = url[k] /\ finding[o].at = finding[k].at
           => finding[o].status = finding[k].status

\* Nobody waits for a probe that is not there; a probe is on time, and is made
\* only when the entry has expired.
ProbesInv ==
  /\ \A k \in Check : step[k] = "waiting" => /\ probe[url[k]] # "none"
                                           /\ asked[k] <= now
  /\ \A u \in Url :
       /\ probe[u] = "request" => now <= deadline[u]
       /\ probe[u] \in {"request", "answered"} => healthCache[u].expiresAt <= now
       /\ probe[u] = "stored" =>
            healthCache[u] = [status |-> status[u], expiresAt |-> now + Ttl]

\* Whoever has been answered was answered what is in the cache, or what was
\* there before.
AnswersInv ==
  \A k \in Check : step[k] = "done" =>
    LET u == url[k]
    IN  /\ healthCache[u] # NoStatus
        /\ finding[k].status \in Status
        /\ finding[k].at <= SeenAt(u)
        /\ finding[k].at = SeenAt(u) => finding[k].status = healthCache[u].status

\* The probes, the cache and the answers fit together
\* (src/src/graphql/service-health.ts:77): why checks that share a probe and
\* checks that find its status in the cache agree.
HealthInv == HealthTypeOK /\ ProbesInv /\ AnswersInv /\ RecentAnswer

\* Every check is answered, even of a service that never answers.
EveryCheckEnds == \A k \in Check : step[k] = "waiting" ~> step[k] = "done"

=============================================================================
