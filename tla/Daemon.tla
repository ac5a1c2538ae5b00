------------------------------- MODULE Daemon -------------------------------
(***************************************************************************)
(* The daemon's lifecycle around the supervisors: the startup pipeline,     *)
(* wave-based startup and shutdown (runner/wave.rs), wait() and             *)
(* do_shutdown() (service_daemon/mod.rs).                                   *)
(*                                                                          *)
(* `phase' is where the run()/wait() caller and the wave code it drives     *)
(* are.  Shutdown starts only once startup has returned: run() and wait()   *)
(* both borrow the daemon mutably.                                          *)
(***************************************************************************)
EXTENDS Supervisor

CONSTANTS
    Prio,           \* ServiceEntry.priority: [Services -> Nat]
    HighPriority,   \* services whose bodies run on the high-priority runtime
    MissingLane     \* HighPriority services that may find that runtime missing

ASSUME DaemonAssumption ==
    /\ Prio \in [Services -> Nat]
    /\ HighPriority \subseteq Services
    /\ MissingLane \subseteq HighPriority

VARIABLES
    phase,  \* what run()/wait() is doing
    wave,   \* the priority of the wave being started or stopped
    todo    \* services of the wave still to be spawned, or still to be joined

vars == <<status, fsm, dtoken, gen, reload, baseline, token, permit, live, outcome,
          resolved, hs, shaken, epoch, phase, wave, todo>>

Phases == {"boot", "spawn", "started", "signal", "join", "teardown", "down"}

\* ServiceWave::from_services
Wave(p) == {s \in Services : Prio[s] = p}
Spawned(s) == fsm[s] # "Unspawned"
Stopping == phase \in {"signal", "join", "teardown", "down"}

Init ==
    /\ SvcInit
    /\ phase = "boot"
    /\ wave = 0
    /\ todo = {}

(* ------------------------------ startup -------------------------------- *)

\* run(): preflight (graph validation, eager providers, runtimes) fails.
StartupFails ==
    /\ phase = "boot"
    /\ phase' = "started"
    /\ dtoken' = TRUE
    /\ UNCHANGED <<status, fsm, genVars, bodyVars, token, permit, epoch, wave, todo>>

\* spawn_all_services: enter the next wave, unless shutdown was requested or
\* there is none.
EnterWave(candidates) ==
    \/ /\ ~dtoken
       /\ \E s \in candidates :
            /\ \A t \in candidates : Prio[t] <= Prio[s]
            /\ phase' = "spawn"
            /\ wave' = Prio[s]
            /\ todo' = Wave(Prio[s])
    \/ /\ dtoken \/ candidates = {}
       /\ phase' = "started"
       /\ UNCHANGED <<wave, todo>>

BeginStartup ==
    /\ phase = "boot"
    /\ EnterWave(Services)
    /\ UNCHANGED svcVars

\* spawn_service
Spawn(s) ==
    /\ phase = "spawn"
    /\ s \in todo
    /\ fsm' = [fsm EXCEPT ![s] = "Starting"]
    /\ todo' = todo \ {s}
    /\ UNCHANGED <<status, dtoken, genVars, bodyVars, token, permit, epoch, phase, wave>>

\* Mutant of SpawnWithoutLane: the daemon is left running.
SpawnWithoutLaneGoesOn(s) ==
    /\ phase = "spawn"
    /\ s \in todo
    /\ s \in MissingLane
    /\ status' = [status EXCEPT ![s] = "Terminated"]
    /\ phase' = "started"
    /\ UNCHANGED <<fsm, dtoken, genVars, bodyVars, token, permit, epoch, wave, todo>>

\* spawn_all_services gives up: the shared high-priority runtime is missing.
SpawnWithoutLane(s) ==
    /\ phase = "spawn"
    /\ s \in todo
    /\ s \in MissingLane
    /\ status' = [status EXCEPT ![s] = "Terminated"]
    /\ dtoken' = TRUE
    /\ phase' = "started"
    /\ UNCHANGED <<fsm, genVars, bodyVars, token, permit, epoch, wave, todo>>

\* wait_for_healthy returns: all healthy, shutdown requested, or (last
\* disjunct of its loop) wave_spawn_timeout elapsed.
WaveHealthy == \A s \in Wave(wave) : status[s] = "Healthy"
AdvanceWave ==
    /\ phase = "spawn"
    /\ todo = {}
    /\ WaveHealthy \/ dtoken
    /\ EnterWave({s \in Services : Prio[s] < wave})
    /\ UNCHANGED svcVars

WaveTimeout ==
    /\ phase = "spawn"
    /\ todo = {}
    /\ ~(WaveHealthy \/ dtoken)
    /\ EnterWave({s \in Services : Prio[s] < wave})
    /\ UNCHANGED svcVars

(* ------------------------------ shutdown ------------------------------- *)

\* ServiceDaemon::shutdown(), DaemonHandle or process token: at any time.
RequestShutdown ==
    /\ ~dtoken
    /\ dtoken' = TRUE
    /\ UNCHANGED <<status, fsm, genVars, bodyVars, token, permit, epoch, phase, wave, todo>>

\* stop_all_services: the next wave in ascending order; after the last one the
\* daemon token is cancelled.
EnterStopWave(candidates) ==
    \/ /\ \E s \in candidates :
            /\ \A t \in candidates : Prio[s] <= Prio[t]
            /\ wave' = Prio[s]
       /\ phase' = "signal"
       /\ UNCHANGED dtoken
    \/ /\ candidates = {}
       /\ dtoken' = TRUE
       /\ phase' = "teardown"
       /\ UNCHANGED wave

\* wait() returns from its select! and do_shutdown runs stop_all_services.
BeginStop ==
    /\ phase = "started"
    /\ EnterStopWave(Services)
    /\ UNCHANGED <<status, fsm, genVars, bodyVars, token, permit, epoch, todo>>

\* Mutant of StopOnToken: wait() does not watch the daemon token.
StopOnTokenMissing == FALSE /\ BeginStop

StopOnToken == dtoken /\ BeginStop
StopOnSignal == ~dtoken /\ BeginStop

\* Step 1 of a stop wave: cancel every service; collect the join handles.
SignalWave ==
    /\ phase = "signal"
    /\ token' = [s \in Services |-> token[s] \/ Prio[s] = wave]
    /\ status' = [s \in Services |-> IF Prio[s] = wave THEN "ShuttingDown" ELSE status[s]]
    /\ todo' = {s \in Wave(wave) : Spawned(s)}
    /\ phase' = "join"
    /\ UNCHANGED <<fsm, dtoken, genVars, bodyVars, permit, epoch, wave>>

\* Step 2: the supervisor task has ended.
JoinService(s) ==
    /\ phase = "join"
    /\ s \in todo
    /\ fsm[s] = "Terminated"
    /\ status' = [status EXCEPT ![s] = "Terminated"]
    /\ todo' = todo \ {s}
    /\ UNCHANGED <<fsm, dtoken, genVars, bodyVars, token, permit, epoch, phase, wave>>

\* Step 2: the grace period elapses first; the supervisor task is aborted.
AbortService(s) ==
    /\ phase = "join"
    /\ s \in todo
    /\ fsm[s] # "Terminated"
    /\ fsm' = [fsm EXCEPT ![s] = "Aborted"]
    /\ status' = [status EXCEPT ![s] = "Terminated"]
    /\ todo' = todo \ {s}
    /\ UNCHANGED <<dtoken, genVars, bodyVars, token, permit, epoch, phase, wave>>

\* Mutant of NextStopWave: the next wave is not held back by join_all.
NextStopWaveEager ==
    /\ phase = "join"
    /\ EnterStopWave({s \in Services : Prio[s] > wave})
    /\ UNCHANGED <<status, fsm, genVars, bodyVars, token, permit, epoch, todo>>

\* join_all returned.
NextStopWave ==
    /\ phase = "join"
    /\ todo = {}
    /\ EnterStopWave({s \in Services : Prio[s] > wave})
    /\ UNCHANGED <<status, fsm, genVars, bodyVars, token, permit, epoch, todo>>

\* do_shutdown after stop_all_services: the adaptive loop and the runtime
\* probes end on the daemon token; dropping the high-priority runtime blocks
\* until no body is being polled on it.
Teardown ==
    /\ phase = "teardown"
    /\ dtoken
    /\ \A s \in HighPriority : live[s] = {}
    /\ phase' = "down"
    /\ UNCHANGED <<svcVars, wave, todo>>

(* --------------------------- specification ----------------------------- *)

Coordinate ==
    \/ BeginStartup \/ AdvanceWave \/ WaveTimeout
    \/ \E s \in Services : Spawn(s) \/ SpawnWithoutLane(s)
    \/ StopOnToken \/ SignalWave \/ NextStopWave \/ Teardown
    \/ \E s \in Services : JoinService(s) \/ AbortService(s)

Next ==
    \/ SvcNext /\ UNCHANGED <<phase, wave, todo>>
    \/ Coordinate
    \/ StartupFails \/ RequestShutdown \/ StopOnSignal

Spec == Init /\ [][Next]_vars

\* The control runtime polls every ready task (supervisors, coordinator), and
\* the wave timers elapse.  An aborted body on the high-priority runtime is
\* dropped at its next await, and it reaches one.  Nothing else is assumed of
\* bodies, nor of restart delays or of the environment.
Fairness ==
    /\ WF_vars(Coordinate)
    /\ \A s \in Services : WF_vars(React(s) /\ UNCHANGED <<phase, wave, todo>>)
    /\ \A s \in HighPriority :
         /\ WF_vars(CommitHandshake(s) /\ UNCHANGED <<phase, wave, todo>>)
         /\ SF_vars(OrphanExit(s) /\ UNCHANGED <<phase, wave, todo>>)

FairSpec == Spec /\ Fairness

(* ----------------------------- properties ------------------------------ *)

Over(s) == fsm[s] \in {"Unspawned", "Terminated", "Aborted"}

TypeOK ==
    /\ SvcTypeOK
    /\ phase \in Phases
    /\ wave \in Nat
    /\ todo \subseteq Services

\* A service never has two bodies running: on_running awaits the generation
\* future on every branch, so OnStarting finds the previous body finished.
AtMostOneBody ==
    \A s \in Services : live[s] \subseteq {gen[s]}

\* Whenever a service has been told to stop, every service of a lower wave is
\* over: its supervisor ended or was aborted, or it was never spawned.
StopOrder ==
    \A s, t \in Services :
        token[t] /\ Prio[s] < Prio[t] => Over(s)

\* A service of a lower wave is spawned only after all those above it.
StartOrder ==
    \A s, t \in Services : Spawned(s) /\ Prio[s] < Prio[t] => Spawned(t)

\* The waves in both directions: services are spawned from the highest priority
\* down and told to stop from the lowest up, each wave over before the next.
WaveOrder == StartOrder /\ StopOrder

\* The plane says Healthy only while a generation exists: never before the
\* first one, between two of them, or after the supervisor ended.
HealthyHasGeneration ==
    \A s \in Services :
        status[s] = "Healthy" => fsm[s] \in {"Running", "Reloading", "Outcome", "Aborted"}

\* The watch baseline of a generation is never newer than the values its body
\* resolved: a body that works with a stale value always has its watch armed.
NoLostUpdate ==
    \A s \in Services :
        gen[s] \in live[s] /\ resolved[s] # Unresolved => baseline[s] <= resolved[s]

\* Once stop_all_services has returned, a service whose supervisor ended by
\* itself is Terminated, whatever its body still tried to report.
GracefulExitIsTerminated ==
    phase \in {"teardown", "down"} =>
        \A s \in Services : fsm[s] = "Terminated" => status[s] = "Terminated"

\* ShuttingDown is left only for Terminated, except by a handshake call that
\* had read the plane before stop_all_services wrote it.
ShutdownStatusStands ==
    [][\A s \in Services :
         status[s] = "ShuttingDown" =>
            \/ status'[s] \in {"ShuttingDown", "Terminated"}
            \/ status'[s] = "Healthy" /\ hs[s] = "Healthy"]_vars

\* A body running with values older than the latest publication is asked to
\* reload, or ends.
StaleBodyIsReloaded ==
    \A s \in Watching :
        (fsm[s] = "Running" /\ resolved[s] # Unresolved /\ resolved[s] < epoch)
            ~> (reload[s] \/ fsm[s] # "Running")

\* Every reason to stop brings the daemon down, whether or not the bodies
\* cooperate: a cancelled daemon token (shutdown(), a failed startup), a provider
\* that cannot be initialised, a HighPriority service without its runtime, which
\* is Terminated although it was never spawned; and once stop_all_services has
\* started, wait() returns.
ShutdownCompletes ==
    (\/ dtoken \/ Stopping
     \/ \E s \in Services : fsm[s] = "Outcome" /\ outcome[s] = "provider_init"
     \/ \E s \in MissingLane : status[s] = "Terminated" /\ ~Spawned(s))
        ~> phase = "down"

\* The detailed lifecycle implements ServiceLifecycle: consecutive
\* generations, one body at a time, none started after cancellation.
Lifecycle == INSTANCE ServiceLifecycle
                WITH up <- {s \in Services : live[s] # {}},
                     halted <- {s \in Services : token[s]}
ImplementsLifecycle == Lifecycle!LSpec

(* ------------ the inductive invariant behind the proofs ---------------- *)

\* A body is live only while its supervisor waits for it, or was aborted; it
\* is the current generation's; and only a live body makes handshake calls.
BodyInv ==
    \A s \in Services :
        /\ live[s] \subseteq {gen[s]}
        /\ live[s] # {} => fsm[s] \in {"Running", "Reloading", "Aborted"}
        /\ live[s] # {} /\ fsm[s] # "Aborted" => outcome[s] = "none"
        /\ hs[s] # "none" => live[s] # {}

\* Baselines are in the past, and not after the resolution of the body.
WatchInv ==
    \A s \in Services :
        /\ baseline[s] <= epoch
        /\ resolved[s] # Unresolved => baseline[s] <= resolved[s]

\* stop_all_services cancels the token before it publishes ShuttingDown.
CancelInv == \A s \in Services : status[s] = "ShuttingDown" => token[s]

\* Start waves in progress: exactly the waves above, and the part of this one
\* that is done, have been spawned.
StartInv ==
    /\ phase = "boot" => \A s \in Services : ~Spawned(s)
    /\ phase = "spawn" =>
         \A s \in Services :
             /\ s \in todo => Prio[s] = wave
             /\ Spawned(s) <=> Prio[s] > wave \/ (Prio[s] = wave /\ s \notin todo)

\* A service whose stop wave has been joined.
Joined(s) ==
    \/ phase = "signal" /\ Prio[s] < wave
    \/ phase = "join" /\ (Prio[s] < wave \/ (Prio[s] = wave /\ s \notin todo))
    \/ phase \in {"teardown", "down"}

\* Cancellation follows the stop waves, and joined services are over.
StopInv ==
    \A s \in Services :
        /\ token[s] => Stopping
        /\ token[s] /\ phase = "signal" => Prio[s] < wave
        /\ token[s] /\ phase = "join" => Prio[s] <= wave
        /\ phase = "join" /\ s \in todo => Spawned(s)
        /\ Joined(s) => Over(s) /\ (fsm[s] = "Terminated" => status[s] = "Terminated")

IndInv ==
    /\ TypeOK /\ BodyInv /\ WatchInv /\ CancelInv /\ HealthyHasGeneration
    /\ StartInv /\ StartOrder /\ StopInv
=============================================================================
