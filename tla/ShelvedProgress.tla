--------------------------- MODULE ShelvedProgress ---------------------------
(***************************************************************************)
(* The shelf (context/api.rs, and SimulationHandle's access to it) under the *)
(* services that live on it: the state() loops of                           *)
(* examples/complete/src/services/lifecycle.rs, generation after generation. *)
(*                                                                          *)
(*   recovery   recovery_service: shelves on every iteration, unshelves in   *)
(*              its Recovering and Restoring arms                            *)
(*   counter    reloading_counter_service: unshelves first, shelves in its   *)
(*              NeedReload arm                                               *)
(*   advanced   advanced_lifecycle_service: an arm for every status          *)
(*   stats      stats_writer, di_restart_demo: no arm for Recovering or      *)
(*              NeedReload                                                   *)
(*   system     system_service, storage_service, external_service: no arm    *)
(*              for Restoring either                                         *)
(*   fatal      fatal_error_demo: the same after its configuration check     *)
(*   sync       sync_service: done(), then blocks until shutdown             *)
(*                                                                          *)
(* All use one key, each in its own bucket.  A body reads state(), then runs *)
(* the arm; it gives up control only in sleep().  What the supervisor does   *)
(* around it is reduced to the start status, the signals and the outcome     *)
(* (Supervisor has the rest).                                                *)
(***************************************************************************)
EXTENDS Integers, FiniteSets

CONSTANTS
    Registered,     \* the sets of services a daemon may have, of
                    \* the names above
    MaxCount,       \* bound: at this count a body sleeps on
    MaxReloads,     \* bound: reload requests
    MaxCrashes,     \* bound: panics of recovery_service
    MaxPokes        \* bound: set_shelf calls of a test

Loops == UNION Registered

ASSUME ShelfAssumption == {MaxCount, MaxReloads, MaxCrashes, MaxPokes} \subseteq Nat

VARIABLES
    present,    \* the daemon's services
    shelfAt,    \* per service: its bucket's value, as a set of at most one
    status,     \* per service: the status plane
    arm,        \* per service: "off", "begin", "top", "sleep", or the arm it is in
    count,      \* per service: the local counter
    reloading,  \* per service: the generation's reload token
    stopped,    \* per service: its cancellation token
    exit,       \* per service: "none", "ok", "panic" or "fatal", until the supervisor has it
    reloads, crashes, pokes,
    reached,    \* ghost: the last count a generation reached
    wiped       \* ghost: NeedReload was shelved by a generation that had not started

qvars == <<present, shelfAt, status, arm, count, reloading, stopped, exit, reloads, crashes, pokes,
           reached, wiped>>

StartingPhase == {"Initializing", "Restoring", "Recovering"}
Number(n) == [type |-> "u32", n |-> n]
Text == [type |-> "String", n |-> 0]

QInit ==
    /\ present \in Registered
    /\ shelfAt = [s \in Loops |-> {}] /\ status = [s \in Loops |-> "Initializing"]
    /\ arm = [s \in Loops |-> "off"] /\ count = [s \in Loops |-> 0]
    /\ reloading = [s \in Loops |-> FALSE] /\ stopped = [s \in Loops |-> FALSE]
    /\ exit = [s \in Loops |-> "none"]
    /\ reloads = 0 /\ crashes = 0 /\ pokes = 0
    /\ reached = [s \in Loops |-> 0] /\ wiped = [s \in Loops |-> FALSE]

(* ---------------------- who has an arm for which status ------------------ *)

AnyStart == {"recovery", "advanced"}
WarmStart == {"counter", "stats"}
ColdStart == {"system", "fatal"}
StartArms(s) ==
    CASE s \in AnyStart -> StartingPhase
      [] s \in WarmStart -> {"Initializing", "Restoring"}
      [] s \in ColdStart -> {"Initializing"}
      [] OTHER -> {}
Shelving == {"recovery", "counter"}
ReloadArms == Shelving \cup {"advanced"}

(* -------------------------------- the shelf ------------------------------ *)

\* Mutant of Bucket: one bucket for the key.
BucketShared(s) == CHOOSE t \in Loops : TRUE

\* The bucket of the calling service's identity.
Bucket(s) == s

\* shelve::<u32>
Shelve(s, n) == shelfAt' = [shelfAt EXCEPT ![Bucket(s)] = {Number(n)}]

\* unshelve::<u32>().unwrap_or(0): the value leaves the shelf even if its type
\* is another one.
Unshelve(s) ==
    /\ count' = [count EXCEPT ![s] = IF \E v \in shelfAt[Bucket(s)] : v.type = "u32"
                                       THEN (CHOOSE v \in shelfAt[Bucket(s)] : TRUE).n ELSE 0]
    /\ shelfAt' = [shelfAt EXCEPT ![Bucket(s)] = {}]

\* SimulationHandle::set_shelf, with the type the service expects or another.
SetShelf(s) ==
    /\ pokes < MaxPokes /\ pokes' = pokes + 1
    /\ \E v \in {Number(MaxCount), Text} : shelfAt' = [shelfAt EXCEPT ![s] = {v}]
    /\ UNCHANGED <<status, arm, count, reloading, stopped, exit, reloads, crashes, reached, wiped>>

(* ------------------------------- supervision ----------------------------- *)

\* determine_start_status, on_starting, and the body is spawned.
StartGenerationOf(s) ==
    /\ arm[s] = "off" /\ exit[s] = "none" /\ status[s] # "Terminated" /\ ~stopped[s]
    /\ status' = [status EXCEPT ![s] = IF @ \in {"Initializing", "Recovering"} THEN @ ELSE "Restoring"]
    /\ reloading' = [reloading EXCEPT ![s] = FALSE]
    /\ arm' = [arm EXCEPT ![s] = "begin"]
    /\ UNCHANGED <<shelfAt, count, stopped, exit, reloads, crashes, pokes, reached, wiped>>

\* A watched provider changes or the reload signal is notified: the select! of
\* on_running cancels the reload token, at any time after the spawn.
ReloadRequested(s) ==
    /\ arm[s] # "off" /\ ~reloading[s] /\ reloads < MaxReloads
    /\ reloading' = [reloading EXCEPT ![s] = TRUE]
    /\ reloads' = reloads + 1
    /\ UNCHANGED <<shelfAt, status, arm, count, stopped, exit, crashes, pokes, reached, wiped>>

\* stop_all_services: the token, then the plane.
StopToken(s) ==
    /\ ~stopped[s] /\ stopped' = [stopped EXCEPT ![s] = TRUE]
    /\ UNCHANGED <<shelfAt, status, arm, count, reloading, exit, reloads, crashes, pokes, reached, wiped>>

StopStatus(s) ==
    /\ stopped[s] /\ status[s] \notin {"ShuttingDown", "Terminated"}
    /\ status' = [status EXCEPT ![s] = "ShuttingDown"]
    /\ UNCHANGED <<shelfAt, arm, count, reloading, stopped, exit, reloads, crashes, pokes, reached, wiped>>

\* handle_outcome: the status the next generation starts from.
OutcomeStatus(s) ==
    IF exit[s] = "panic" THEN "Recovering"
    ELSE IF reloading[s] THEN "Restoring" ELSE "Initializing"

\* on_outcome; a generation that ends after the token was cancelled, or with
\* ServiceError::Fatal, is the last.
Outcome(s) ==
    /\ exit[s] # "none" \/ (arm[s] = "off" /\ stopped[s] /\ status[s] # "Terminated")
    /\ status' = [status EXCEPT ![s] = IF stopped[s] \/ exit[s] = "fatal" THEN "Terminated"
                                       ELSE OutcomeStatus(s)]
    /\ exit' = [exit EXCEPT ![s] = "none"]
    /\ UNCHANGED <<shelfAt, arm, count, reloading, stopped, reloads, crashes, pokes, reached, wiped>>

(* --------------------------------- bodies -------------------------------- *)

\* state(): the tokens first, then the plane.
StateOf(s) ==
    IF stopped[s] THEN "ShuttingDown"
    ELSE IF reloading[s] THEN (IF status[s] = "ShuttingDown" THEN "ShuttingDown" ELSE "NeedReload")
    ELSE status[s]

\* done()
DoneFrom(st) ==
    IF st \in StartingPhase THEN "Healthy"
    ELSE IF st \in {"NeedReload", "ShuttingDown"} THEN "Terminated" ELSE st
Done(s) == status' = [status EXCEPT ![s] = DoneFrom(@)]

\* The locals: reloading_counter_service unshelves before its loop.
Enter(s) ==
    /\ arm[s] = "begin" /\ s # "sync"
    /\ IF s = "counter" THEN Unshelve(s)
       ELSE count' = [count EXCEPT ![s] = 0] /\ UNCHANGED shelfAt
    /\ arm' = [arm EXCEPT ![s] = "top"]
    /\ UNCHANGED <<status, reloading, stopped, exit, reloads, crashes, pokes, reached, wiped>>

\* fatal_error_demo with an invalid configuration.
FatalExit(s) ==
    /\ s = "fatal" /\ arm[s] = "begin"
    /\ exit' = [exit EXCEPT ![s] = "fatal"] /\ arm' = [arm EXCEPT ![s] = "off"]
    /\ UNCHANGED <<shelfAt, status, count, reloading, stopped, reloads, crashes, pokes, reached, wiped>>

\* sync_service: ready, then deaf to everything but is_shutdown().
SyncBody(s) ==
    /\ s = "sync"
    /\ \/ /\ arm[s] = "begin" /\ Done(s)
          /\ arm' = [arm EXCEPT ![s] = "sleep"] /\ UNCHANGED exit
       \/ /\ arm[s] = "sleep" /\ StateOf(s) = "ShuttingDown"
          /\ arm' = [arm EXCEPT ![s] = "off"] /\ exit' = [exit EXCEPT ![s] = "ok"]
          /\ UNCHANGED status
    /\ UNCHANGED <<shelfAt, count, reloading, stopped, reloads, crashes, pokes, reached, wiped>>

Look(s) ==
    /\ arm[s] = "top"
    /\ arm' = [arm EXCEPT ![s] = StateOf(s)]
    /\ UNCHANGED <<shelfAt, status, count, reloading, stopped, exit, reloads, crashes, pokes, reached, wiped>>

InitializingArm(s) ==
    /\ arm[s] = "Initializing" /\ arm[s] \in StartArms(s)
    /\ Done(s)
    /\ count' = [count EXCEPT ![s] = IF s = "recovery" THEN 0 ELSE @]
    /\ reached' = [reached EXCEPT ![s] = IF s = "recovery" THEN 0 ELSE @]
    /\ arm' = [arm EXCEPT ![s] = "top"]
    /\ UNCHANGED <<shelfAt, reloading, stopped, exit, reloads, crashes, pokes, wiped>>

\* The Recovering and Restoring arms.
RestoringArm(s) ==
    /\ arm[s] \in StartArms(s) \ {"Initializing"}
    /\ IF s = "recovery" THEN Unshelve(s) ELSE UNCHANGED <<count, shelfAt>>
    /\ Done(s)
    /\ arm' = [arm EXCEPT ![s] = "top"]
    /\ UNCHANGED <<reloading, stopped, exit, reloads, crashes, pokes, reached, wiped>>

HealthyArm(s) ==
    /\ arm[s] = "Healthy"
    /\ count' = [count EXCEPT ![s] = IF s \in Shelving THEN @ + 1 ELSE @]
    /\ reached' = [reached EXCEPT ![s] = count'[s]]
    /\ IF s = "recovery" THEN Shelve(s, count[s] + 1) ELSE UNCHANGED shelfAt
    /\ arm' = [arm EXCEPT ![s] = "sleep"]
    /\ UNCHANGED <<status, reloading, stopped, exit, reloads, crashes, pokes, wiped>>

\* sleep() completes or is interrupted; the loop goes on either way.
Wake(s) ==
    /\ arm[s] = "sleep" /\ s # "sync" /\ (count[s] < MaxCount \/ reloading[s] \/ stopped[s])
    /\ arm' = [arm EXCEPT ![s] = "top"]
    /\ UNCHANGED <<shelfAt, status, count, reloading, stopped, exit, reloads, crashes, pokes, reached, wiped>>

\* The panic recovery_service invites, after shelve().
Panic(s) ==
    /\ s = "recovery" /\ arm[s] = "sleep" /\ crashes < MaxCrashes
    /\ crashes' = crashes + 1
    /\ exit' = [exit EXCEPT ![s] = "panic"] /\ arm' = [arm EXCEPT ![s] = "off"]
    /\ UNCHANGED <<shelfAt, status, count, reloading, stopped, reloads, pokes, reached, wiped>>

\* NeedReload: shelve, done(), break.
ReloadArm(s) ==
    /\ arm[s] = "NeedReload" /\ s \in ReloadArms
    /\ IF s \in Shelving THEN Shelve(s, count[s]) ELSE UNCHANGED shelfAt
    /\ Done(s)
    /\ wiped' = [wiped EXCEPT ![s] = @ \/ (s = "recovery" /\ status[s] \in StartingPhase)]
    /\ exit' = [exit EXCEPT ![s] = "ok"] /\ arm' = [arm EXCEPT ![s] = "off"]
    /\ UNCHANGED <<count, reloading, stopped, reloads, crashes, pokes, reached>>

\* ShuttingDown, and whatever the match has no arm for: break.
BreakArm(s) ==
    /\ \/ arm[s] \in {"ShuttingDown", "Terminated"}
       \/ arm[s] \in StartingPhase \ StartArms(s)
       \/ arm[s] = "NeedReload" /\ s \notin ReloadArms
    /\ exit' = [exit EXCEPT ![s] = "ok"] /\ arm' = [arm EXCEPT ![s] = "off"]
    /\ UNCHANGED <<shelfAt, status, count, reloading, stopped, reloads, crashes, pokes, reached, wiped>>

(* ----------------------------- specification ----------------------------- *)

BodySteps(s) ==
    \/ Enter(s) \/ Look(s) \/ InitializingArm(s) \/ RestoringArm(s) \/ HealthyArm(s) \/ Wake(s)
    \/ ReloadArm(s) \/ BreakArm(s) \/ SyncBody(s)

QNext ==
    /\ UNCHANGED present
    /\ \E s \in present :
        \/ StartGenerationOf(s) \/ Outcome(s) \/ BodySteps(s)
        \/ ReloadRequested(s) \/ StopToken(s) \/ StopStatus(s) \/ Panic(s) \/ SetShelf(s)
        \/ FatalExit(s)

QSpec == QInit /\ [][QNext]_qvars

(* ------------------------------ properties ------------------------------ *)

\* Progress goes from generation to generation through the shelf, whatever
\* reloads and panics come in between: when a body is about to count it stands
\* where the last one stopped, provided no test wrote to the shelf and, for
\* recovery_service, no generation was reloaded before it had started.
ProgressContinues ==
    \A s \in Loops : arm[s] = "Healthy" /\ pokes = 0 /\ ~wiped[s] => count[s] = reached[s]
=============================================================================
