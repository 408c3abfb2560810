------------------------------ MODULE Lifecycle ------------------------------
(***************************************************************************)
(* The processes of the registry from start to exit (src/schema-registry.ts, *)
(* src/index.ts).  A process warms up until it listens.  After a SIGTERM   *)
(* its health check fails, and 19 s later, by which time nobody should     *)
(* open connections any more, its server closes: the requests that are open *)
(* may end, and so may those that follow on their connections, then the    *)
(* process exits.  A signal that comes before it listens sets the health   *)
(* check and nothing else: that process listens later and never exits.     *)
(***************************************************************************)
EXTENDS Naturals

CONSTANTS
  Process,
  MaxSignals  \* bound: the SIGTERMs a process is sent

ASSUME LifecycleAssumption == MaxSignals \in Nat

VARIABLES
  phase,       \* phase[p]: what the process is at
  terminated,  \* terminated[p]: the health check answers 503
  closers,     \* closers[p]: the 19 s timers that run
  exiting,     \* exiting[p]: the last second runs
  idle,        \* idle[p]: the connections kept alive that carry no request
  killed       \* history: it was killed

life == <<phase, terminated, closers, exiting, killed>>

Phase == {"warmingUp", "waiting", "listening", "closing", "exited"}

LifeInit ==
  /\ phase = [p \in Process |-> "warmingUp"]
  /\ terminated = [p \in Process |-> FALSE]
  /\ closers = [p \in Process |-> 0]
  /\ exiting = [p \in Process |-> FALSE]
  /\ idle = [p \in Process |-> 0]
  /\ killed = [p \in Process |-> FALSE]

To(p, from, to) == phase[p] = from /\ phase' = [phase EXCEPT ![p] = to]

------------------------------------------------------------------------------
\* The database is created and migrated, the routes and signal handlers are
\* set, and the server listens.
WarmUp(p) ==
  /\ To(p, "warmingUp", "listening")
  /\ UNCHANGED <<terminated, closers, exiting, idle, killed>>

\* One of it fails; a timer of 10 s runs.
WarmUpFails(p) ==
  /\ To(p, "warmingUp", "waiting")
  /\ UNCHANGED <<terminated, closers, exiting, idle, killed>>

WarmUpAgain(p) ==
  /\ To(p, "waiting", "warmingUp")
  /\ UNCHANGED <<terminated, closers, exiting, idle, killed>>

\* From then on the health check answers 503, whatever the database answers.
FailHealthCheck(p) == terminated' = [terminated EXCEPT ![p] = TRUE]

\* The handler of the router is there from the first moment, so that a signal
\* never has its default effect; the one that closes needs a server.
Signal(p) ==
  /\ phase[p] # "exited" /\ closers[p] < MaxSignals
  /\ FailHealthCheck(p)
  /\ closers' = [closers EXCEPT
       ![p] = IF phase[p] \in {"listening", "closing"} THEN @ + 1 ELSE @]
  /\ UNCHANGED <<phase, exiting, idle, killed>>

\* Faulty: the process does not wait for its connections.
CloseAndExit(p) ==
  /\ closers[p] > 0 /\ closers' = [closers EXCEPT ![p] = @ - 1]
  /\ phase' = [phase EXCEPT ![p] = "closing"]
  /\ exiting' = [exiting EXCEPT ![p] = TRUE]
  /\ idle' = [idle EXCEPT ![p] = 0]
  /\ UNCHANGED <<terminated, killed>>

\* No connection is accepted from now on, and those without a request are
\* dropped.  A server that is told again drops them again, and has another
\* callback wait for the same event.
Close(p) ==
  /\ closers[p] > 0 /\ closers' = [closers EXCEPT ![p] = @ - 1]
  /\ phase' = [phase EXCEPT ![p] = "closing"]
  /\ idle' = [idle EXCEPT ![p] = 0]
  /\ UNCHANGED <<terminated, exiting, killed>>

\* Faulty: the callback is not called.
ClosedUnheard(p, busy) ==
  /\ phase[p] = "closing" /\ busy = {} /\ idle[p] = 0 /\ ~exiting[p]
  /\ UNCHANGED <<life, idle>>

\* The callback: no connection is left.
Closed(p, busy) ==
  /\ phase[p] = "closing" /\ busy = {} /\ idle[p] = 0 /\ ~exiting[p]
  /\ exiting' = [exiting EXCEPT ![p] = TRUE]
  /\ UNCHANGED <<phase, terminated, closers, idle, killed>>

Gone(p) ==
  /\ phase' = [phase EXCEPT ![p] = "exited"]
  /\ closers' = [closers EXCEPT ![p] = 0]
  /\ exiting' = [exiting EXCEPT ![p] = FALSE]
  /\ idle' = [idle EXCEPT ![p] = 0]
  /\ UNCHANGED terminated

Exit(p) == exiting[p] /\ Gone(p) /\ UNCHANGED killed

\* SIGKILL, or an exception nobody caught.
Kill(p) ==
  /\ phase[p] # "exited" /\ Gone(p)
  /\ killed' = [killed EXCEPT ![p] = TRUE]

Stops(p) == Exit(p) \/ Kill(p)

------------------------------------------------------------------------------
(* Connections                                                             *)

\* A request comes on a connection of its own, or on one kept alive.
Arrives(p) ==
  \/ phase[p] = "listening" /\ UNCHANGED idle
  \/ /\ phase[p] \in {"listening", "closing"} /\ idle[p] > 0
     /\ idle' = [idle EXCEPT ![p] = @ - 1]

\* Its connection ends with it, or is kept alive, by a closing server too.
Answered(p) == idle' \in {idle, [idle EXCEPT ![p] = @ + 1]}

\* The client ends it, or a few seconds pass.
Disconnect(p) ==
  /\ idle[p] > 0 /\ idle' = [idle EXCEPT ![p] = @ - 1]
  /\ UNCHANGED life

\* busy: the requests whose connection is open.
Runs(p, busy) ==
  \/ WarmUp(p) \/ WarmUpFails(p) \/ WarmUpAgain(p)
  \/ Signal(p) \/ Close(p) \/ Closed(p, busy) \/ Disconnect(p)

LifeTypeOK ==
  /\ phase \in [Process -> Phase]
  /\ terminated \in [Process -> BOOLEAN]
  /\ closers \in [Process -> 0..MaxSignals]
  /\ exiting \in [Process -> BOOLEAN]
  /\ idle \in [Process -> Nat]
  /\ killed \in [Process -> BOOLEAN]

=============================================================================
