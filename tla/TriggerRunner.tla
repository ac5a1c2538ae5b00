--------------------------- MODULE TriggerRunner ----------------------------
(***************************************************************************)
(* One generation of a trigger: the event loop of TriggerRunner::           *)
(* run_with_host (trigger_runner/event_loop.rs), the dispatch tasks it      *)
(* spawns (dispatch.rs), their retries (interceptors.rs) and the shutdown   *)
(* drain (drain.rs).                                                        *)
(*                                                                          *)
(* Dispatches are numbered by instance_seq.  The loop is one task: what it  *)
(* does between two awaits is atomic, and it looks at the branches of its   *)
(* biased select! in order (`Settled': the in-flight branch is not ready).  *)
(* Handlers run as tasks of their own, and the stop signal (the service's   *)
(* cancellation token or its reload token) comes at any time.  The number   *)
(* of permits is fixed here; TriggerConcurrency.tla models how it changes.  *)
(***************************************************************************)
EXTENDS Integers, FiniteSets

CONSTANTS
    MaxEvents,      \* bound: events the host emits
    Permits,        \* semaphore permits
    MaxRetries,     \* RestartPolicy.trigger_max_retries
    HostMoves,      \* what handle_step returns: a subset of {"next", "reload", "stop"}
    MonitorFails    \* TRUE: the scale monitor task may die

ASSUME RunnerAssumption ==
    /\ {MaxEvents, MaxRetries} \subseteq Nat
    /\ Permits \in Nat \ {0}
    /\ HostMoves \subseteq {"next", "reload", "stop"}
    /\ MonitorFails \in BOOLEAN

Dispatches == 1..MaxEvents
NoOutcome == [completed |-> 0, failed |-> 0, timedOut |-> FALSE, residual |-> -1]

VARIABLES
    loop,       \* "poll" select!, "permit" dispatch() awaits a permit, "reloadWait",
                \* "stopping" a Stop transition arrived, "stopDrain" drain_in_flight,
                \* "draining" shutdown_draining, "done"
    result,     \* what run_with_host returned: "none", "ok", "err"
    move,       \* the transition being handled
    seq,        \* instance_counter
    task,       \* dispatch tasks
    attempts,   \* BackoffController.attempt_count of each dispatch
    inFlight,   \* in_flight
    stop,       \* the cancellation token or the reload token is cancelled
    drain,      \* shutdown_drain_completed, shutdown_drain_failed, in-flight at its start
    recorded,   \* the TriggerDrainOutcome recorded, or NoOutcome
    facts       \* TriggerRuntimeRecord: dispatched, completed, failed, retries

rvars == <<loop, result, move, seq, task, attempts, inFlight, stop, drain, recorded, facts>>

\* Tasks that hold a permit, and tasks whose JoinHandle is ready.
Busy == {d \in Dispatches : task[d] \in {"running", "backoff"}}
Finished(d) == task[d] \in {"ok", "failed"}
Settled == \A d \in inFlight : ~Finished(d)

\* register_trigger: a generation starts with a new record.
RegisteredFacts == [dispatched |-> 0, completed |-> 0, failed |-> 0, retries |-> 0]

\* record_dispatched, record_completed, record_failed and record_retry.
Recorded(counter) == [facts EXCEPT ![counter] = @ + 1]

\* in_flight of pressure_snapshot: the limit less the permits left.
PressureInFlight ==
    LET available_permits == Permits - Cardinality(Busy) IN Permits - available_permits

RInit ==
    /\ loop = "poll" /\ result = "none" /\ move = "none" /\ seq = 0
    /\ task = [d \in Dispatches |-> "idle"]
    /\ attempts = [d \in Dispatches |-> 0]
    /\ inFlight = {}
    /\ stop = FALSE
    /\ drain = [completed |-> 0, failed |-> 0, started |-> 0]
    /\ recorded = NoOutcome
    /\ facts = RegisteredFacts

\* run_with_host returns: the tasks of `rest' lose their AbortOnDropJoinHandle.
Return(res, rest) ==
    /\ loop' = "done"
    /\ result' = res
    /\ inFlight' = {}
    /\ task' = [d \in Dispatches |-> IF d \in rest /\ d \in Busy THEN "aborted" ELSE task[d]]

(* ----------------------------- event loop ------------------------------ *)

\* poll_next_event yields a transition; dispatch() takes a sequence number.
HostEmits(m) ==
    /\ loop = "poll" /\ ~stop /\ Settled
    /\ move' = m
    /\ \/ /\ m = "stop"
          /\ loop' = "stopping"
          /\ UNCHANGED seq
       \/ /\ m # "stop" /\ seq < MaxEvents
          /\ loop' = "permit"
          /\ seq' = seq + 1
    /\ UNCHANGED <<result, task, attempts, inFlight, stop, drain, recorded, facts>>

\* Mutant of Dispatch: the dispatch is not counted.
DispatchUncounted ==
    /\ loop = "permit"
    /\ Cardinality(Busy) < Permits
    /\ task' = [task EXCEPT ![seq] = "running"]
    /\ inFlight' = inFlight \cup {seq}
    /\ loop' = IF move = "reload" THEN "reloadWait" ELSE "poll"
    /\ UNCHANGED <<result, move, seq, attempts, stop, drain, recorded, facts>>

\* dispatch(): a permit is granted, the task is spawned and pushed.
Dispatch ==
    /\ loop = "permit"
    /\ Cardinality(Busy) < Permits
    /\ task' = [task EXCEPT ![seq] = "running"]
    /\ inFlight' = inFlight \cup {seq}
    /\ facts' = Recorded("dispatched")
    /\ loop' = IF move = "reload" THEN "reloadWait" ELSE "poll"
    /\ UNCHANGED <<result, move, seq, attempts, stop, drain, recorded>>

\* The TriggerDrainOutcome of a drain that ends before its timeout.
DrainOutcome(count, rest) ==
    [completed |-> count.completed, failed |-> count.failed,
     timedOut |-> FALSE, residual |-> Cardinality(rest)]

\* in_flight.next() yields the outcome of d: observe_dispatch_task, then the
\* branch of the select! (or of drain_in_flight) that receives it.
Observe(d) ==
    /\ loop \in {"poll", "reloadWait", "draining", "stopDrain"}
    /\ d \in inFlight /\ Finished(d)
    /\ LET rest == inFlight \ {d}
           draining == loop = "draining"
           ok == task[d] = "ok"
           count == [drain EXCEPT !.completed = @ + (IF ok THEN 1 ELSE 0),
                                  !.failed = @ + (IF ok THEN 0 ELSE 1)]
       IN  /\ facts' = Recorded(IF ok THEN "completed" ELSE "failed")
           /\ drain' = IF draining THEN count ELSE drain
           /\ recorded' = IF draining /\ (~ok \/ rest = {})
                          THEN DrainOutcome(count, rest)
                          ELSE recorded
           /\ \/ /\ ~ok
                 /\ Return("err", rest)
              \/ /\ ok /\ loop \in {"draining", "stopDrain"} /\ rest = {}
                 /\ Return("ok", rest)
              \/ /\ ok /\ (loop \in {"poll", "reloadWait"} \/ rest # {})
                 /\ inFlight' = rest
                 /\ UNCHANGED <<loop, result, task>>
    /\ UNCHANGED <<move, seq, attempts, stop>>

\* poll_next_event returns None: shutdown or reload.
BeginDrain ==
    /\ loop = "poll" /\ stop /\ Settled
    /\ \/ /\ inFlight = {}
          /\ Return("ok", {})
          /\ UNCHANGED drain
       \/ /\ inFlight # {}
          /\ loop' = "draining"
          /\ drain' = [completed |-> 0, failed |-> 0, started |-> Cardinality(inFlight)]
          /\ UNCHANGED <<result, task, inFlight>>
    /\ UNCHANGED <<move, seq, attempts, stop, recorded, facts>>

\* Mutants of DrainTimeout: the outcome is not flagged; there is no timeout.
DrainTimeoutUnflagged ==
    /\ loop = "draining" /\ Settled
    /\ recorded' = DrainOutcome(drain, inFlight)
    /\ Return("ok", inFlight)
    /\ UNCHANGED <<move, seq, attempts, stop, drain, facts>>

DrainTimeoutMissing == FALSE /\ UNCHANGED rvars

\* The drain timeout elapses.  Its residual is the count it was created with.
DrainTimeout ==
    /\ loop = "draining" /\ Settled
    /\ recorded' = [completed |-> drain.completed, failed |-> drain.failed,
                    timedOut |-> TRUE, residual |-> drain.started]
    /\ Return("ok", inFlight)
    /\ UNCHANGED <<move, seq, attempts, stop, drain, facts>>

\* Reload transition: the stop signal ends the wait with Stop, and since
\* is_shutdown() then holds, nothing is drained.
ReloadStop ==
    /\ loop = "reloadWait" /\ stop /\ Settled
    /\ Return("ok", inFlight)
    /\ UNCHANGED <<move, seq, attempts, stop, drain, recorded, facts>>

\* Stop transition: drain_in_flight, unless is_shutdown().
StopTransition ==
    /\ loop = "stopping"
    /\ \/ /\ stop \/ inFlight = {}
          /\ Return("ok", inFlight)
       \/ /\ ~stop /\ inFlight # {}
          /\ loop' = "stopDrain"
          /\ UNCHANGED <<result, task, inFlight>>
    /\ UNCHANGED <<move, seq, attempts, stop, drain, recorded, facts>>

\* The scale monitor's JoinHandle resolves.
MonitorExit ==
    /\ MonitorFails
    /\ loop \in {"poll", "draining"} /\ Settled
    /\ Return("err", inFlight)
    /\ UNCHANGED <<move, seq, attempts, stop, drain, recorded, facts>>

LoopStep ==
    \/ \E d \in Dispatches : Observe(d)
    \/ Dispatch \/ BeginDrain \/ DrainTimeout \/ ReloadStop \/ StopTransition

(* --------------------------- dispatch tasks ---------------------------- *)

SetTask(d, t) ==
    /\ task' = [task EXCEPT ![d] = t]
    /\ UNCHANGED <<loop, result, move, seq, inFlight, stop, drain, recorded>>

HandlerReturns(d) ==
    /\ task[d] = "running"
    /\ SetTask(d, "ok")
    /\ UNCHANGED <<attempts, facts>>

\* record_retry_failure up to its sleep; a stop signal ends the retries with Ok.
HandlerErrs(d) ==
    /\ task[d] = "running"
    /\ attempts' = [attempts EXCEPT ![d] = @ + 1]
    /\ facts' = Recorded("retries")
    /\ SetTask(d, IF stop THEN "ok" ELSE "backoff")

\* The delay ends: HandlerRetryExhausted, or the next attempt.
RetryDue(d) ==
    /\ task[d] = "backoff"
    /\ SetTask(d, IF attempts[d] >= MaxRetries THEN "failed" ELSE "running")
    /\ UNCHANGED <<attempts, facts>>

\* context::sleep is interrupted.
RetryInterrupted(d) ==
    /\ task[d] = "backoff" /\ stop
    /\ SetTask(d, "ok")
    /\ UNCHANGED <<attempts, facts>>

\* The task panics, or run_dispatch_with_timeout cuts it off.
DispatchDies(d) ==
    /\ task[d] \in {"running", "backoff"}
    /\ SetTask(d, "failed")
    /\ UNCHANGED <<attempts, facts>>

TaskStep(d) == HandlerReturns(d) \/ HandlerErrs(d) \/ RetryDue(d) \/ RetryInterrupted(d)

RequestStop ==
    /\ ~stop /\ loop # "done"
    /\ stop' = TRUE
    /\ UNCHANGED <<loop, result, move, seq, task, attempts, inFlight, drain, recorded, facts>>

RNext ==
    \/ \E m \in HostMoves : HostEmits(m)
    \/ LoopStep \/ MonitorExit
    \/ \E d \in Dispatches : TaskStep(d) \/ DispatchDies(d)
    \/ RequestStop

RSpec == RInit /\ [][RNext]_rvars

\* The runtime polls the loop's task, and its timers elapse.
LoopFairSpec == RSpec /\ WF_rvars(LoopStep)

(* ----------------------------- properties ------------------------------ *)

\* The failed attempts of all dispatches, <<dispatch, number>>.
Backoffs == UNION {{<<d, n>> : n \in 1..attempts[d]} : d \in Dispatches}

\* Every dispatch is accounted for.  While the loop runs, the runtime facts know it as
\* completed, as failed or in flight, and the permits never show more in flight than
\* the counters; the retries, counted by the dispatch tasks, are those of all their
\* backoffs, also of tasks that were cut off; and the outcome of a drain that ends
\* before its timeout accounts for all it started with.
FactsExact ==
    /\ loop # "done" =>
        /\ facts.dispatched = facts.completed + facts.failed + Cardinality(inFlight)
        /\ PressureInFlight <= facts.dispatched - facts.completed - facts.failed
    /\ facts.retries = Cardinality(Backoffs)
    /\ recorded # NoOutcome /\ ~recorded.timedOut =>
        recorded.completed + recorded.failed + recorded.residual = drain.started

\* A generation that ends well, on its own or by a drain that did not time out,
\* leaves no dispatch unfinished and none failed: Stop drains, failures are
\* returned, and a drain cuts nothing off without saying so.
CleanEndIsComplete ==
    result = "ok" /\ (~stop \/ (recorded # NoOutcome /\ ~recorded.timedOut)) =>
        \A d \in Dispatches : task[d] \in {"idle", "ok"}

\* Wherever the loop watches the signal, it ends the generation although
\* handlers hang: the reload wait stops, the drain times out.
DrainIsBounded == (stop /\ loop \in {"poll", "reloadWait", "draining"}) ~> loop = "done"

(* --------- statements of the documentation the code does not meet -------- *)

\* docs: shutdown does not wait for ever, whatever handlers do.
StopEndsAlways == stop ~> loop = "done"
=============================================================================
