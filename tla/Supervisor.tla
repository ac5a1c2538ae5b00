----------------------------- MODULE Supervisor -----------------------------
(***************************************************************************)
(* The per-service supervisor of runner/supervisor.rs, together with the    *)
(* generation bodies it drives (runner/generation.rs) and the handshake     *)
(* calls those bodies make (context/api.rs).                                *)
(*                                                                          *)
(* Supervisors and the wave coordinator share one control thread            *)
(* (runtime.rs: CONTROL_RUNTIME_WORKER_THREADS = 1), so a handler between    *)
(* two real awaits is one atomic action.  Bodies run on other threads: the  *)
(* read and the write of done() and of implicit_handshake() are two steps.  *)
(*                                                                          *)
(* Abstractions.  Error, panic, trigger dispatch failure and isolated       *)
(* startup failure differ only in the recorded failure kind, so they are    *)
(* one outcome, "failure".  Restart delays are timers that may fire at any  *)
(* time (RestartBackoff.tla computes them).  All the providers a service    *)
(* depends on are one `epoch', the sum of their value and binding epochs.   *)
(***************************************************************************)
EXTENDS Integers, FiniteSets

CONSTANTS
    Services,       \* the ServiceIds of the daemon
    Watching,       \* services whose watcher yields a non-empty watch set
    BodyOutcomes,   \* what bodies may return, a subset of Outcomes
    MaxGen,         \* bound: generations per service
    MaxEpoch,       \* bound: provider publications
    ReloadSignals   \* TRUE: SimulationHandle::trigger_reload is called

Outcomes == {"ok", "failure", "fatal", "provider_init"}

ASSUME SupervisorAssumption ==
    /\ Watching \subseteq Services
    /\ BodyOutcomes \subseteq Outcomes
    /\ MaxGen \in Nat
    /\ MaxEpoch \in Nat
    /\ ReloadSignals \in BOOLEAN

StartupStatus == {"Initializing", "Restoring", "Recovering"}
Status == StartupStatus \cup {"Absent", "Healthy", "NeedReload", "ShuttingDown", "Terminated"}
FsmState == {"Unspawned", "Starting", "Running", "Reloading", "Outcome",
             "Backoff", "Terminated", "Aborted"}
Unresolved == -1

VARIABLES
    status,     \* status_plane; "Absent": no entry
    fsm,        \* SupervisorState; "Reloading": reload token cancelled, awaiting the body
    dtoken,     \* the daemon's cancellation token
    gen,        \* ServiceSupervisor.generation
    reload,     \* reload_token of the current generation
    baseline,   \* provider epoch captured by the generation's watch set
    token,      \* ServiceDescription.cancellation_token
    permit,     \* reload_signals: "none" no entry, "empty", "stored" a notify_one permit
    live,       \* generations whose body is executing
    outcome,    \* what the current generation's body returned, or "none"
    resolved,   \* provider epoch the current body resolved its dependencies at
    hs,         \* status a handshake call has decided to write, or "none"
    shaken,     \* is_handshake_done of the current generation
    epoch       \* provider publications so far

superVars == <<status, fsm, dtoken>>
genVars   == <<gen, reload, baseline>>
bodyVars  == <<live, outcome, resolved, hs, shaken>>
svcVars   == <<status, fsm, dtoken, gen, reload, baseline, token, permit,
               live, outcome, resolved, hs, shaken, epoch>>

SvcInit ==
    /\ status = [s \in Services |-> "Absent"]
    /\ fsm = [s \in Services |-> "Unspawned"]
    /\ dtoken = FALSE
    /\ gen = [s \in Services |-> 0]
    /\ reload = [s \in Services |-> FALSE]
    /\ baseline = [s \in Services |-> 0]
    /\ token = [s \in Services |-> FALSE]
    /\ permit = [s \in Services |-> "none"]
    /\ live = [s \in Services |-> {}]
    /\ outcome = [s \in Services |-> "none"]
    /\ resolved = [s \in Services |-> Unresolved]
    /\ hs = [s \in Services |-> "none"]
    /\ shaken = [s \in Services |-> FALSE]
    /\ epoch = 0

(* ---------------------- supervisor handlers ---------------------------- *)

\* determine_start_status
StartStatus(s) ==
    CASE status[s] \in {"Absent", "Initializing"} -> "Initializing"
      [] status[s] = "Recovering" -> "Recovering"
      [] OTHER -> "Restoring"

\* terminate()
Terminate(s) ==
    /\ status' = [status EXCEPT ![s] = "Terminated"]
    /\ fsm' = [fsm EXCEPT ![s] = "Terminated"]

\* on_starting after shutdown was requested.
OnStartingCancelled(s) ==
    /\ fsm[s] = "Starting"
    /\ token[s]
    /\ Terminate(s)
    /\ UNCHANGED <<dtoken, token, permit, epoch, genVars, bodyVars>>

\* Mutant of OnStarting: the cancellation check is missing.
OnStartingUnchecked(s) ==
    /\ fsm[s] = "Starting"
    /\ gen[s] < MaxGen
    /\ status' = [status EXCEPT ![s] = StartStatus(s)]
    /\ fsm' = [fsm EXCEPT ![s] = "Running"]
    /\ gen' = [gen EXCEPT ![s] = @ + 1]
    /\ live' = [live EXCEPT ![s] = @ \cup {gen[s] + 1}]
    /\ outcome' = [outcome EXCEPT ![s] = "none"]
    /\ UNCHANGED <<dtoken, reload, baseline, token, permit, resolved, hs, shaken, epoch>>

\* on_starting, then on_running up to its select!, which spawns the body.
OnStarting(s) ==
    /\ fsm[s] = "Starting"
    /\ ~token[s]
    /\ gen[s] < MaxGen
    /\ status' = [status EXCEPT ![s] = StartStatus(s)]
    /\ fsm' = [fsm EXCEPT ![s] = "Running"]
    /\ gen' = [gen EXCEPT ![s] = @ + 1]
    /\ reload' = [reload EXCEPT ![s] = FALSE]
    /\ baseline' = [baseline EXCEPT ![s] = epoch]
    /\ permit' = [permit EXCEPT ![s] = IF @ = "none" THEN "empty" ELSE @]
    /\ live' = [live EXCEPT ![s] = @ \cup {gen[s] + 1}]
    /\ outcome' = [outcome EXCEPT ![s] = "none"]
    /\ resolved' = [resolved EXCEPT ![s] = Unresolved]
    /\ shaken' = [shaken EXCEPT ![s] = FALSE]
    /\ UNCHANGED <<dtoken, token, hs, epoch>>

\* Mutant of WatchFires: only services that report Healthy are reloaded.
WatchFiresIfHealthy(s) ==
    /\ fsm[s] = "Running"
    /\ s \in Watching
    /\ baseline[s] # epoch
    /\ status[s] = "Healthy"
    /\ fsm' = [fsm EXCEPT ![s] = "Reloading"]
    /\ reload' = [reload EXCEPT ![s] = TRUE]
    /\ UNCHANGED <<status, dtoken, gen, baseline, token, permit, epoch, bodyVars>>

\* on_running, branch watch_set.changed(): a watched epoch differs from the baseline.
WatchFires(s) ==
    /\ fsm[s] = "Running"
    /\ s \in Watching
    /\ baseline[s] # epoch
    /\ fsm' = [fsm EXCEPT ![s] = "Reloading"]
    /\ reload' = [reload EXCEPT ![s] = TRUE]
    /\ UNCHANGED <<status, dtoken, gen, baseline, token, permit, epoch, bodyVars>>

\* on_running, branch reload_signal.notified().
ReloadFires(s) ==
    /\ fsm[s] = "Running"
    /\ permit[s] = "stored"
    /\ fsm' = [fsm EXCEPT ![s] = "Reloading"]
    /\ reload' = [reload EXCEPT ![s] = TRUE]
    /\ permit' = [permit EXCEPT ![s] = "empty"]
    /\ UNCHANGED <<status, dtoken, gen, baseline, token, epoch, bodyVars>>

\* on_running returns once the generation future has resolved.
GenerationDone(s) ==
    /\ fsm[s] \in {"Running", "Reloading"}
    /\ outcome[s] # "none"
    /\ fsm' = [fsm EXCEPT ![s] = "Outcome"]
    /\ UNCHANGED <<status, dtoken, token, permit, epoch, genVars, bodyVars>>

\* on_outcome / handle_outcome.  The immediate restart of on_restart does not
\* yield, so a clean exit goes straight back to Starting.
OnOutcome(s) ==
    /\ fsm[s] = "Outcome"
    /\ \/ /\ token[s] \/ outcome[s] = "fatal"
          /\ Terminate(s)
          /\ UNCHANGED dtoken
       \/ /\ ~token[s] /\ outcome[s] = "provider_init"
          /\ Terminate(s)
          /\ dtoken' = TRUE
       \/ /\ ~token[s] /\ outcome[s] = "ok"
          /\ status' = [status EXCEPT ![s] = IF reload[s] THEN "Restoring" ELSE "Initializing"]
          /\ fsm' = [fsm EXCEPT ![s] = "Starting"]
          /\ UNCHANGED dtoken
       \/ /\ ~token[s] /\ outcome[s] = "failure"
          /\ status' = [status EXCEPT ![s] = "Recovering"]
          /\ fsm' = [fsm EXCEPT ![s] = "Backoff"]
          /\ UNCHANGED dtoken
    /\ UNCHANGED <<token, permit, epoch, genVars, bodyVars>>

\* wait_for_restart: the delay elapses.
BackoffElapsed(s) ==
    /\ fsm[s] = "Backoff"
    /\ fsm' = [fsm EXCEPT ![s] = "Starting"]
    /\ UNCHANGED <<status, dtoken, token, permit, epoch, genVars, bodyVars>>

\* wait_for_restart: a reload signal cuts the delay short.
BackoffReload(s) ==
    /\ fsm[s] = "Backoff"
    /\ permit[s] = "stored"
    /\ permit' = [permit EXCEPT ![s] = "empty"]
    /\ fsm' = [fsm EXCEPT ![s] = "Starting"]
    /\ UNCHANGED <<status, dtoken, token, epoch, genVars, bodyVars>>

\* wait_for_restart: shutdown during the delay.
BackoffCancelled(s) ==
    /\ fsm[s] = "Backoff"
    /\ token[s]
    /\ Terminate(s)
    /\ UNCHANGED <<dtoken, token, permit, epoch, genVars, bodyVars>>

(* ------------------------------ bodies --------------------------------- *)

\* The wrapper generated for a service resolves its dependencies first.
BodyResolve(s) ==
    /\ s \in Watching
    /\ gen[s] \in live[s]
    /\ resolved[s] = Unresolved
    /\ resolved' = [resolved EXCEPT ![s] = epoch]
    /\ UNCHANGED <<superVars, genVars, live, outcome, hs, shaken, token, permit, epoch>>

\* done(): read the plane, decide.  Statuses not listed are a no-op.
BeginDone(s) ==
    /\ live[s] # {}
    /\ hs[s] = "none"
    /\ \/ /\ status[s] \in StartupStatus \cup {"Absent"}
          /\ hs' = [hs EXCEPT ![s] = "Healthy"]
       \/ /\ status[s] \in {"NeedReload", "ShuttingDown"}
          /\ hs' = [hs EXCEPT ![s] = "Terminated"]
    /\ UNCHANGED <<superVars, genVars, live, outcome, resolved, shaken, token, permit, epoch>>

\* implicit_handshake(), once per generation.  The flag is set on this thread
\* after the write; nothing else reads it in between.
BeginImplicit(s) ==
    /\ live[s] # {}
    /\ hs[s] = "none"
    /\ ~shaken[s]
    /\ shaken' = [shaken EXCEPT ![s] = TRUE]
    /\ hs' = [hs EXCEPT ![s] = IF status[s] \in StartupStatus THEN "Healthy" ELSE "none"]
    /\ UNCHANGED <<superVars, genVars, live, outcome, resolved, token, permit, epoch>>

\* done() and implicit_handshake(): status_plane.insert of what was decided.
CommitHandshake(s) ==
    /\ hs[s] # "none"
    /\ status' = [status EXCEPT ![s] = hs[s]]
    /\ hs' = [hs EXCEPT ![s] = "none"]
    /\ UNCHANGED <<fsm, dtoken, genVars, live, outcome, resolved, shaken, token, permit, epoch>>

\* The body of the current generation returns; its outcome reaches the supervisor.
BodyFinish(s, r) ==
    /\ fsm[s] \in {"Running", "Reloading"}
    /\ gen[s] \in live[s]
    /\ hs[s] = "none"
    /\ live' = [live EXCEPT ![s] = @ \ {gen[s]}]
    /\ outcome' = [outcome EXCEPT ![s] = r]
    /\ UNCHANGED <<superVars, genVars, resolved, hs, shaken, token, permit, epoch>>

\* A body whose supervisor was aborted ends: a Standard or HighPriority task is
\* dropped at its next await (BodyTaskAbortGuard), an isolated thread returns.
OrphanExit(s) ==
    /\ fsm[s] = "Aborted"
    /\ live[s] # {}
    /\ hs[s] = "none"
    /\ live' = [live EXCEPT ![s] = {}]
    /\ UNCHANGED <<superVars, genVars, outcome, resolved, hs, shaken, token, permit, epoch>>

(* ---------------------------- environment ------------------------------ *)

\* A provider value or binding changes (StateManager publish, mutate_binding).
Publish ==
    /\ epoch < MaxEpoch
    /\ epoch' = epoch + 1
    /\ UNCHANGED <<superVars, genVars, bodyVars, token, permit>>

\* SimulationHandle::trigger_reload; without an entry the call has no effect.
TriggerReload(s) ==
    /\ ReloadSignals
    /\ permit[s] = "empty"
    /\ permit' = [permit EXCEPT ![s] = "stored"]
    /\ UNCHANGED <<superVars, genVars, bodyVars, token, epoch>>

\* Steps the supervisor takes as soon as it is polled.
React(s) ==
    \/ OnStartingCancelled(s) \/ OnStarting(s)
    \/ WatchFires(s) \/ ReloadFires(s) \/ GenerationDone(s)
    \/ OnOutcome(s)
    \/ BackoffReload(s) \/ BackoffCancelled(s)

BodyStep(s) ==
    \/ BodyResolve(s) \/ BeginDone(s) \/ BeginImplicit(s) \/ CommitHandshake(s)
    \/ \E r \in BodyOutcomes : BodyFinish(s, r)
    \/ OrphanExit(s)

SvcNext ==
    \/ \E s \in Services : React(s) \/ BackoffElapsed(s) \/ BodyStep(s) \/ TriggerReload(s)
    \/ Publish

SvcTypeOK ==
    /\ status \in [Services -> Status]
    /\ fsm \in [Services -> FsmState]
    /\ dtoken \in BOOLEAN
    /\ gen \in [Services -> Nat]
    /\ reload \in [Services -> BOOLEAN]
    /\ baseline \in [Services -> Nat]
    /\ token \in [Services -> BOOLEAN]
    /\ permit \in [Services -> {"none", "empty", "stored"}]
    /\ live \in [Services -> SUBSET Nat]
    /\ outcome \in [Services -> Outcomes \cup {"none"}]
    /\ resolved \in [Services -> Nat \cup {Unresolved}]
    /\ hs \in [Services -> {"none", "Healthy", "Terminated"}]
    /\ shaken \in [Services -> BOOLEAN]
    /\ epoch \in Nat
=============================================================================
