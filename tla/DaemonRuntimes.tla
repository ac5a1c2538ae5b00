--------------------------- MODULE DaemonRuntimes ---------------------------
(***************************************************************************)
(* Who owns which task of a daemon: its control and high-priority runtimes,  *)
(* the lane probes and the advice loop (service_daemon/runtime.rs), started  *)
(* by run() or run_for_duration() and ended by wait(), by the end of the     *)
(* duration, or by dropping the ServiceDaemon wherever its owner stands,     *)
(* the future of run() or wait() in flight included.                         *)
(*                                                                          *)
(* One service per body lane.  Supervisors, the startup and stop             *)
(* orchestrations, the advice loop and the control probe are tasks of the    *)
(* control runtime; the standard probe and standard bodies are tasks of the  *)
(* caller's runtime; isolated bodies have a thread each.  Generations,       *)
(* restarts and waves are in Supervisor and Daemon.  Dropping a Tokio        *)
(* runtime drops its tasks at their next await (external).                   *)
(***************************************************************************)
EXTENDS Integers, FiniteSets

CONSTANTS
    Daemons,        \* the daemons' services: sets of lanes, one service on each
    Advising        \* scheduling_advisory_profile.is_enabled()

VARIABLES
    owner,      \* where the code that owns the ServiceDaemon is
    lanes,      \* the lanes of its services
    driver,     \* "wait" (run + wait) or "duration" (run_for_duration)
    runtime,    \* per owned runtime: "none", "up", "closing", "closed"
    orch,       \* the orchestration task on the control runtime: "none", "start", "stop", "done", "killed"
    super,      \* supervisors: "none", "running", "ended", "aborted", "killed"
    body,       \* bodies: "none", "running", "aborted" (until its next await), "ended"
    probe,      \* lane probes: "none", "running", "ended", "killed"
    advice,     \* the advice loop, likewise
    told,       \* services whose cancellation token is cancelled
    over        \* the daemon token

tvars == <<owner, lanes, driver, runtime, orch, super, body, probe, advice, told, over>>

BodyLanes == {"standard", "high", "isolated"}
Owned == {"control", "high"}
ProbeLanes == {"control", "standard", "high"}

ASSUME DaemonsAssumption == Daemons \subseteq SUBSET BodyLanes

TInit ==
    /\ lanes \in Daemons
    /\ owner = "built" /\ driver \in {"wait", "duration"}
    /\ runtime = [r \in Owned |-> "none"] /\ orch = "none"
    /\ super = [s \in BodyLanes |-> "none"] /\ body = [s \in BodyLanes |-> "none"]
    /\ probe = [l \in ProbeLanes |-> "none"] /\ advice = "none"
    /\ told = {} /\ over = FALSE

(* ------------------------------- startup ------------------------------- *)

\* HighPriorityCapacityPlan::from_services, ensure_high_priority_runtime: a
\* runtime only where some service needs it.
NeedsHigh == "high" \in lanes

\* prepare_startup_runtimes: the lanes that get a probe.
Probes == {"standard"} \cup (IF lanes # {} THEN {"control"} ELSE {})
                       \cup (IF NeedsHigh THEN {"high"} ELSE {})

\* The preflight succeeds: runtimes, probes and the advice loop exist.  run()
\* hands the waves to a task of the control runtime; run_for_duration spawns
\* the supervisors itself.
Prepare ==
    /\ owner = "built"
    /\ runtime' = [control |-> IF lanes # {} THEN "up" ELSE "none",
                   high |-> IF NeedsHigh THEN "up" ELSE "none"]
    /\ probe' = [l \in ProbeLanes |-> IF l \in Probes THEN "running" ELSE "none"]
    /\ advice' = IF Advising /\ lanes # {} THEN "running" ELSE "none"
    /\ orch' = IF driver = "wait" /\ lanes # {} THEN "start" ELSE "none"
    /\ owner' = "starting"
    /\ UNCHANGED <<lanes, driver, super, body, told, over>>

\* The preflight fails, before any task was spawned: the provider graph, an
\* eager provider or the control runtime, or (second) the high-priority
\* runtime once the control runtime is there.  run() cancels the daemon token
\* and returns; run_for_duration returns the error and the daemon is dropped.
PreflightFails ==
    /\ owner = "built"
    /\ \/ UNCHANGED runtime
       \/ NeedsHigh /\ runtime' = [runtime EXCEPT !["control"] = "up"]
    /\ \/ driver = "wait" /\ over' = TRUE /\ owner' = "up"
       \/ driver = "duration" /\ owner' = "failed" /\ UNCHANGED over
    /\ UNCHANGED <<lanes, driver, orch, super, body, probe, advice, told>>

\* spawn_service, by the startup task or by run_simulation_startup.
SpawnSupervisor(s) ==
    /\ s \in lanes /\ super[s] = "none"
    /\ orch = "start" \/ (driver = "duration" /\ owner = "starting")
    /\ super' = [super EXCEPT ![s] = "running"]
    /\ UNCHANGED <<owner, lanes, driver, runtime, orch, body, probe, advice, told, over>>

\* spawn_all_services returns: all spawned, or the daemon token stopped it.
StartupTaskEnds ==
    /\ orch = "start"
    /\ over \/ \A s \in lanes : super[s] # "none"
    /\ orch' = "done"
    /\ UNCHANGED <<owner, lanes, driver, runtime, super, body, probe, advice, told, over>>

\* run() returns, or run_for_duration starts its sleep.
Started ==
    /\ owner = "starting"
    /\ IF orch = "none" THEN \A s \in lanes : super[s] # "none" ELSE orch = "done"
    /\ owner' = "up"
    /\ UNCHANGED <<lanes, driver, runtime, orch, super, body, probe, advice, told, over>>

(* -------------------- supervisors, bodies, loops ------------------------ *)

\* on_starting: the next generation's body on its lane.
StartBody(s) ==
    /\ super[s] = "running" /\ body[s] \in {"none", "ended"} /\ s \notin told
    /\ body' = [body EXCEPT ![s] = "running"]
    /\ UNCHANGED <<owner, lanes, driver, runtime, orch, super, probe, advice, told, over>>

\* A body returns, or an aborted one reaches an await and is dropped there.
BodyReturns(s) ==
    /\ body[s] \in {"running", "aborted"}
    /\ body' = [body EXCEPT ![s] = "ended"]
    /\ UNCHANGED <<owner, lanes, driver, runtime, orch, super, probe, advice, told, over>>

\* The supervisor ends on its service's token once no body is left.
SupervisorEnds(s) ==
    /\ super[s] = "running" /\ s \in told /\ body[s] \in {"none", "ended"}
    /\ super' = [super EXCEPT ![s] = "ended"]
    /\ UNCHANGED <<owner, lanes, driver, runtime, orch, body, probe, advice, told, over>>

\* run_lane_runtime_probe and run_adaptive_scheduling_recommendations end on
\* the daemon token.
ProbeEnds(l) ==
    /\ probe[l] = "running" /\ over
    /\ probe' = [probe EXCEPT ![l] = "ended"]
    /\ UNCHANGED <<owner, lanes, driver, runtime, orch, super, body, advice, told, over>>

AdviceEnds ==
    /\ advice = "running" /\ over
    /\ advice' = "ended"
    /\ UNCHANGED <<owner, lanes, driver, runtime, orch, super, body, probe, told, over>>

\* shutdown(), a handle, the process token, or a fatal provider.
CancelDaemon ==
    /\ ~over
    /\ over' = TRUE
    /\ UNCHANGED <<owner, lanes, driver, runtime, orch, super, body, probe, advice, told>>

(* ------------------------------- shutdown ------------------------------- *)

\* wait() returns from its select! (the token, an OS signal), or the duration
\* is over.  do_shutdown runs the stop waves as a task of the control runtime
\* when there is one; run_for_duration in place.
BeginStopping ==
    /\ owner = "up"
    /\ orch' = IF driver = "wait" /\ runtime["control"] = "up" THEN "stop" ELSE orch
    /\ owner' = "stopping"
    /\ UNCHANGED <<lanes, driver, runtime, super, body, probe, advice, told, over>>

Stopper == owner = "stopping" /\ (orch = "stop" \/ driver = "duration" \/ runtime["control"] = "none")

\* stop_all_services: the tokens, then join or abort.
Tell(s) ==
    /\ Stopper /\ s \in lanes \ told
    /\ told' = told \cup {s}
    /\ UNCHANGED <<owner, lanes, driver, runtime, orch, super, body, probe, advice, over>>

\* The abort guard a dropped supervisor leaves for its body: an isolated body
\* runs on its thread, out of reach.
Abandoned(s) == IF s # "isolated" /\ body[s] = "running" THEN "aborted" ELSE body[s]

\* The grace period elapses: the supervisor is aborted.
AbortSupervisor(s) ==
    /\ Stopper /\ s \in told /\ super[s] = "running"
    /\ super' = [super EXCEPT ![s] = "aborted"]
    /\ body' = [body EXCEPT ![s] = Abandoned(s)]
    /\ UNCHANGED <<owner, lanes, driver, runtime, orch, probe, advice, told, over>>

\* stop_all_services cancels the daemon token and returns.
StopReturns ==
    /\ Stopper
    /\ \A s \in lanes : s \in told /\ super[s] # "running"
    /\ over' = TRUE
    /\ orch' = IF orch = "stop" THEN "done" ELSE orch
    /\ owner' = "advice"
    /\ UNCHANGED <<lanes, driver, runtime, super, body, probe, advice, told>>

\* stop_adaptive_recommendation_loop: take the handle and await it.
AwaitAdvice ==
    /\ owner = "advice" /\ advice # "running"
    /\ owner' = "probes"
    /\ UNCHANGED <<lanes, driver, runtime, orch, super, body, probe, advice, told, over>>

\* Mutant of AwaitProbes: the handles are dropped, not awaited.
AwaitProbesDropped ==
    /\ owner = "probes"
    /\ owner' = "high"
    /\ UNCHANGED <<lanes, driver, runtime, orch, super, body, probe, advice, told, over>>

\* stop_runtime_probes: drain the handles and await each.
AwaitProbes ==
    /\ owner = "probes" /\ \A l \in ProbeLanes : probe[l] # "running"
    /\ owner' = "high"
    /\ UNCHANGED <<lanes, driver, runtime, orch, super, body, probe, advice, told, over>>

\* The thread that drops runtime r ends.  The control runtime's tasks are
\* dropped, and every supervisor takes the body it guards with it; a
\* high-priority body was dropped at its last await.
Closed(r) ==
    /\ runtime[r] = "closing"
    /\ r = "high" => body["high"] \in {"none", "ended"}
    /\ runtime' = [runtime EXCEPT ![r] = "closed"]
    /\ probe' = [probe EXCEPT ![r] = IF @ = "running" THEN "killed" ELSE @]
    /\ IF r = "control"
         THEN /\ super' = [s \in BodyLanes |-> IF super[s] = "running" THEN "killed" ELSE super[s]]
              /\ body' = [s \in BodyLanes |-> IF super[s] = "running" THEN Abandoned(s) ELSE body[s]]
              /\ advice' = IF advice = "running" THEN "killed" ELSE advice
              /\ orch' = IF orch \in {"start", "stop"} THEN "killed" ELSE orch
         ELSE UNCHANGED <<super, body, advice, orch>>
    /\ UNCHANGED <<owner, lanes, driver, told, over>>

\* A runtime that is being dropped drops its bodies at their next await.
HighBodyDropped ==
    /\ runtime["high"] = "closing" /\ body["high"] = "running"
    /\ body' = [body EXCEPT !["high"] = "aborted"]
    /\ UNCHANGED <<owner, lanes, driver, runtime, orch, super, probe, advice, told, over>>

\* shutdown_high_priority_runtime and shutdown_control_runtime hand the
\* runtime to a thread that drops it; wait() joins that thread before it goes
\* on, run_for_duration (the _detached forms) does not.
DropRuntime(r) ==
    /\ owner = r /\ runtime[r] = "up"
    /\ runtime' = [runtime EXCEPT ![r] = "closing"]
    /\ UNCHANGED <<owner, lanes, driver, orch, super, body, probe, advice, told, over>>

AfterRuntime(r, next) ==
    /\ owner = r
    /\ runtime[r] \in {"none", "closed"} \/ (runtime[r] = "closing" /\ driver = "duration")
    /\ owner' = next
    /\ UNCHANGED <<lanes, driver, runtime, orch, super, body, probe, advice, told, over>>

AfterHigh == AfterRuntime("high", "control")
AfterControl == AfterRuntime("control", "down")

(* -------------------------------- Drop ---------------------------------- *)

\* Mutant of DropDaemon: the control runtime is left to its tasks.
DropDaemonKeepsControl ==
    /\ owner' = "dropped"
    /\ advice' = IF advice = "running" THEN "killed" ELSE advice
    /\ runtime' = [r \in Owned |-> IF r = "high" /\ runtime[r] = "up" THEN "closing" ELSE runtime[r]]
    /\ UNCHANGED <<lanes, driver, orch, super, body, probe, told, over>>

\* impl Drop for ServiceDaemon: abort the advice loop, drop both runtimes on
\* threads of their own.
DropDaemon ==
    /\ owner' = "dropped"
    /\ advice' = IF advice = "running" THEN "killed" ELSE advice
    /\ runtime' = [r \in Owned |-> IF runtime[r] = "up" THEN "closing" ELSE runtime[r]]
    /\ UNCHANGED <<lanes, driver, orch, super, body, probe, told, over>>

\* The owner lets it go, or run_for_duration has returned.
Let ==
    /\ owner # "dropped"
    /\ DropDaemon

(* ---------------------------- specification ----------------------------- *)

OwnerSteps ==
    \/ Started \/ AwaitAdvice \/ AwaitProbes \/ StopReturns
    \/ \E r \in Owned : DropRuntime(r)
    \/ AfterHigh \/ AfterControl

ServiceSteps(s) ==
    \/ SpawnSupervisor(s) \/ StartBody(s) \/ SupervisorEnds(s) \/ BodyReturns(s)
    \/ Tell(s) \/ AbortSupervisor(s)

TNext ==
    \/ Prepare \/ PreflightFails \/ OwnerSteps \/ StartupTaskEnds
    \/ \E s \in lanes : ServiceSteps(s)
    \/ \E l \in ProbeLanes : ProbeEnds(l)
    \/ AdviceEnds \/ HighBodyDropped
    \/ \E r \in Owned : Closed(r)
    \/ CancelDaemon \/ BeginStopping \/ Let

\* The owner and every ready task are polled, threads run and timers elapse; a
\* body returns once it is told to, and reaches an await once it is aborted.
TFairness ==
    /\ WF_tvars(OwnerSteps) /\ WF_tvars(StartupTaskEnds)
    /\ WF_tvars(AdviceEnds) /\ WF_tvars(HighBodyDropped)
    /\ \A l \in ProbeLanes : WF_tvars(ProbeEnds(l))
    /\ \A r \in Owned : WF_tvars(Closed(r))
    /\ \A s \in BodyLanes :
         /\ WF_tvars(SpawnSupervisor(s)) /\ WF_tvars(SupervisorEnds(s))
         /\ WF_tvars(Tell(s)) /\ WF_tvars(AbortSupervisor(s))
         /\ WF_tvars((body[s] = "aborted" \/ s \in told) /\ BodyReturns(s))

TSpec == TInit /\ [][TNext]_tvars /\ TFairness

(* ------------------------------ properties ------------------------------ *)

ControlLoops == {probe[l] : l \in ProbeLanes} \cup {advice}

\* A shutdown that runs to its end leaves nothing: when wait() returns, no
\* probe, advice loop, supervisor or orchestration is running, none of them
\* was cut off by the drop of its runtime, and the only bodies left are those
\* whose supervisor outlasted the grace period.
WaitLeavesNothing ==
    owner = "down" /\ driver = "wait" =>
        /\ ControlLoops \cap {"running", "killed"} = {}
        /\ orch \in {"none", "done"}
        /\ \A s \in BodyLanes :
             /\ super[s] \notin {"running", "killed"}
             /\ body[s] = "running" => super[s] = "aborted"

\* However the owner lets go, it comes to an end.  Once stopping begins the owner
\* gets through, although a body may ignore its token; and dropping the daemon
\* wherever its owner stands ends everything that its runtimes carry, and the
\* standard bodies their supervisors guard.
TeardownEnds ==
    /\ owner = "stopping" ~> owner \in {"down", "dropped"}
    /\ owner = "dropped" ~>
        /\ \A s \in BodyLanes \ {"isolated"} : body[s] # "running" /\ super[s] # "running"
        /\ probe["control"] # "running" /\ probe["high"] # "running" /\ advice # "running"

\* docs: letting the ServiceDaemon go out of scope shuts the system down.
DropShutsDown ==
    owner = "dropped" ~> \A s \in BodyLanes : body[s] # "running"
=============================================================================
