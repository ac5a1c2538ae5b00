------------------------- MODULE IsolatedGeneration -------------------------
(***************************************************************************)
(* run_isolated_service_generation (runner/generation.rs): a generation body *)
(* on an OS thread and a Tokio runtime of its own.  The supervisor waits for *)
(* a startup permit, spawns the thread, waits for the outcome on a oneshot   *)
(* channel and joins the thread for a bounded time; the thread builds the    *)
(* runtime, gives the permit back, runs the body, drops the runtime and      *)
(* sends the outcome.  The supervisor itself may be dropped at any await.    *)
(*                                                                          *)
(* What the body does is in Supervisor; here it may run for ever, leave work *)
(* on its runtime's blocking pool, or panic.  Dropping a runtime waits for   *)
(* its blocking pool (Tokio, external).                                      *)
(***************************************************************************)
EXTENDS Integers, FiniteSets

CONSTANTS
    Starting,       \* generations of isolated services that start at the same time
    StartupLimit    \* isolated_startup_concurrency_limit

ASSUME StartupLimitAssumption == StartupLimit \in Nat \ {0}

VARIABLES
    permits,    \* available startup permits
    sup,        \* the supervisor: "gate", "await", "join", "done", "dropped"
    thread,     \* "none", "building", "body", "dropping", "exiting", "gone", "panicked"
    leftover,   \* the body left work on the blocking pool that is still running
    bridge,     \* the oneshot channel: "open", an outcome, or "closed" (sender dropped)
    outcomeOf,  \* what the supervisor was given
    boundary,   \* the IsolatedRuntimeJoin boundary recorded
    signalled     \* the cancellation or the reload token of the generation

zvars == <<permits, sup, thread, leftover, bridge, outcomeOf, boundary, signalled>>

ZInit ==
    /\ permits = StartupLimit
    /\ sup = [g \in Starting |-> "gate"] /\ thread = [g \in Starting |-> "none"]
    /\ leftover = [g \in Starting |-> FALSE] /\ bridge = [g \in Starting |-> "open"]
    /\ outcomeOf = [g \in Starting |-> "none"] /\ boundary = [g \in Starting |-> "none"]
    /\ signalled = [g \in Starting |-> FALSE]

(* ------------------------------ supervisor ------------------------------ *)

\* The permit is there: the thread is spawned before the next await.
Admit(g) ==
    /\ sup[g] = "gate" /\ permits > 0
    /\ permits' = permits - 1
    /\ sup' = [sup EXCEPT ![g] = "await"]
    /\ thread' = [thread EXCEPT ![g] = "building"]
    /\ UNCHANGED <<leftover, bridge, outcomeOf, boundary, signalled>>

\* Mutant of SpawnFails: the permit is lost with the thread.
SpawnFailsLeaks(g) ==
    /\ sup[g] = "gate" /\ permits > 0
    /\ permits' = permits - 1
    /\ sup' = [sup EXCEPT ![g] = "done"]
    /\ outcomeOf' = [outcomeOf EXCEPT ![g] = "ThreadSpawn"]
    /\ UNCHANGED <<thread, leftover, bridge, boundary, signalled>>

\* The OS refuses a thread: the closure is dropped, and the permit with it.
SpawnFails(g) ==
    /\ sup[g] = "gate" /\ permits > 0
    /\ sup' = [sup EXCEPT ![g] = "done"]
    /\ outcomeOf' = [outcomeOf EXCEPT ![g] = "ThreadSpawn"]
    /\ UNCHANGED <<permits, thread, leftover, bridge, boundary, signalled>>

\* Shutdown or reload while the generation waits for a permit.
GateCancelled(g) ==
    /\ sup[g] = "gate" /\ signalled[g]
    /\ sup' = [sup EXCEPT ![g] = "done"]
    /\ outcomeOf' = [outcomeOf EXCEPT ![g] = "StartupGateCancelled"]
    /\ UNCHANGED <<permits, thread, leftover, bridge, boundary, signalled>>

\* outcome_rx.await returns.
Receive(g) ==
    /\ sup[g] = "await" /\ bridge[g] # "open"
    /\ sup' = [sup EXCEPT ![g] = "join"]
    /\ outcomeOf' = [outcomeOf EXCEPT ![g] = IF bridge[g] = "closed" THEN "BridgeClosed" ELSE bridge[g]]
    /\ UNCHANGED <<permits, thread, leftover, bridge, boundary, signalled>>

\* bounded_join_isolated_thread; the timeout may pass while the thread is on its
\* way out.
JoinOutcome(g) ==
    CASE thread[g] = "gone" -> "Joined"
      [] thread[g] = "panicked" -> "Panicked"
      [] OTHER -> "TimedOut"

\* The bounded join, and record_shutdown_boundary of its outcome.
Join(g) ==
    /\ sup[g] = "join"
    /\ boundary' = [boundary EXCEPT ![g] = JoinOutcome(g)]
    /\ sup' = [sup EXCEPT ![g] = "done"]
    /\ UNCHANGED <<permits, thread, leftover, bridge, outcomeOf, signalled>>

\* The supervisor task is aborted (a stop wave timed out): the future is dropped,
\* the thread is not.
SupervisorDropped(g) ==
    /\ sup[g] \in {"gate", "await", "join"} /\ signalled[g]
    /\ sup' = [sup EXCEPT ![g] = "dropped"]
    /\ UNCHANGED <<permits, thread, leftover, bridge, outcomeOf, boundary, signalled>>

(* -------------------------------- thread -------------------------------- *)

\* The runtime is built: drop(permit), then the body starts.
RuntimeBuilt(g) ==
    /\ thread[g] = "building"
    /\ permits' = permits + 1
    /\ thread' = [thread EXCEPT ![g] = "body"]
    /\ UNCHANGED <<sup, leftover, bridge, outcomeOf, boundary, signalled>>

\* It cannot be built: drop(permit), and the outcome says so.
RuntimeBuildFails(g) ==
    /\ thread[g] = "building"
    /\ permits' = permits + 1
    /\ thread' = [thread EXCEPT ![g] = "exiting"]
    /\ bridge' = [bridge EXCEPT ![g] = "RuntimeBuild"]
    /\ UNCHANGED <<sup, leftover, outcomeOf, boundary, signalled>>

\* Mutant of BodyEnds: the outcome is sent before the runtime is dropped.
BodyEndsSends(g) ==
    /\ thread[g] = "body"
    /\ thread' = [thread EXCEPT ![g] = "dropping"]
    /\ leftover' \in {[leftover EXCEPT ![g] = b] : b \in BOOLEAN}
    /\ bridge' = [bridge EXCEPT ![g] = "body"]
    /\ UNCHANGED <<permits, sup, outcomeOf, boundary, signalled>>

\* The body returns or its panic is caught; the probe task is awaited; block_on
\* returns and the runtime is about to be dropped.
BodyEnds(g) ==
    /\ thread[g] = "body"
    /\ thread' = [thread EXCEPT ![g] = "dropping"]
    /\ leftover' \in {[leftover EXCEPT ![g] = b] : b \in BOOLEAN}
    /\ UNCHANGED <<permits, sup, bridge, outcomeOf, boundary, signalled>>

LeftoverEnds(g) ==
    /\ leftover[g]
    /\ leftover' = [leftover EXCEPT ![g] = FALSE]
    /\ UNCHANGED <<permits, sup, thread, bridge, outcomeOf, boundary, signalled>>

\* The runtime is gone: tx.send (nobody may be listening any more).
SendOutcome(g) ==
    /\ thread[g] = "dropping" /\ ~leftover[g]
    /\ bridge' = [bridge EXCEPT ![g] = "body"]
    /\ thread' = [thread EXCEPT ![g] = "exiting"]
    /\ UNCHANGED <<permits, sup, leftover, outcomeOf, boundary, signalled>>

\* A destructor panics while the runtime is dropped: the sender goes with it.
DropPanics(g) ==
    /\ thread[g] = "dropping" /\ ~leftover[g]
    /\ bridge' = [bridge EXCEPT ![g] = "closed"]
    /\ thread' = [thread EXCEPT ![g] = "panicked"]
    /\ UNCHANGED <<permits, sup, leftover, outcomeOf, boundary, signalled>>

ThreadExits(g) ==
    /\ thread[g] = "exiting"
    /\ thread' = [thread EXCEPT ![g] = "gone"]
    /\ UNCHANGED <<permits, sup, leftover, bridge, outcomeOf, boundary, signalled>>

\* The service's cancellation token or the generation's reload token.
StopGeneration(g) ==
    /\ ~signalled[g]
    /\ signalled' = [signalled EXCEPT ![g] = TRUE]
    /\ UNCHANGED <<permits, sup, thread, leftover, bridge, outcomeOf, boundary>>

Building(g) == RuntimeBuilt(g) \/ RuntimeBuildFails(g)
Leaving(g) == SendOutcome(g) \/ DropPanics(g) \/ ThreadExits(g)

ZNext ==
    \E g \in Starting :
        \/ Admit(g) \/ SpawnFails(g) \/ GateCancelled(g) \/ Receive(g) \/ Join(g)
        \/ SupervisorDropped(g)
        \/ Building(g) \/ BodyEnds(g) \/ LeftoverEnds(g) \/ Leaving(g) \/ StopGeneration(g)

ZSpec == ZInit /\ [][ZNext]_zvars

(* ------------------------------ properties ------------------------------ *)

\* Every permit is available or with a thread that is still building its runtime,
\* whichever way the starts fail and whether or not their supervisors survive.
PermitsAccounted ==
    permits + Cardinality({g \in Starting : thread[g] = "building"}) = StartupLimit

\* When the supervisor goes on, to the next generation or to its end, nothing of this
\* one is left: no body, no work on its blocking pool; and the boundary it records is
\* what became of the thread, which after "Joined" is gone.
NoOverlap ==
    \A g \in Starting :
        /\ sup[g] \in {"join", "done"} =>
             thread[g] \in {"none", "exiting", "gone", "panicked"} /\ ~leftover[g]
        /\ boundary[g] = "Joined" => thread[g] = "gone"
        /\ boundary[g] = "Panicked" => thread[g] = "panicked"
=============================================================================
