--------------------------- MODULE RestartBackoff ---------------------------
(***************************************************************************)
(* How long a failed service waits before its next generation:              *)
(* BackoffController and RestartStormGuard (models/policy.rs) as            *)
(* wait_for_restart and on_outcome (runner/supervisor.rs) drive them.        *)
(*                                                                          *)
(* Time is a natural number.  A select! whose branch is ready is polled     *)
(* before time passes.  Delays are whole units; jitter is any whole number  *)
(* within its range.                                                        *)
(***************************************************************************)
EXTENDS Integers, Sequences, FiniteSets

CONSTANTS
    InitialDelay, MaxDelay, Multiplier, ResetAfter,     \* RestartPolicy
    JitterPercents,     \* the jitter factors of the policies considered
    Window, Threshold, Suppression,                     \* RestartStormConfig
    MaxTime     \* bound on the clock

ASSUME BackoffAssumption ==
    /\ {InitialDelay, MaxDelay, ResetAfter, Window, Suppression, MaxTime} \subseteq Nat
    /\ {Multiplier, Threshold} \subseteq Nat \ {0}  \* sanitized_multiplier; new() takes max(1)
    /\ JitterPercents \subseteq 0..100

VARIABLES
    jitter,     \* jitter_factor of this service's policy
    now,
    mode,       \* "running" a generation, "waiting" in wait_for_restart, "stopped"
    since,      \* start of the generation
    delay,      \* BackoffController.current_delay
    attempts,   \* BackoffController.attempt_count
    failures,   \* RestartStormGuard.failures
    wakeAt,     \* deadline of the sleep in wait_for_restart
    signal,     \* a reload permit is stored
    cancelled   \* the service's cancellation token

bvars == <<jitter, now, mode, since, delay, attempts, failures, wakeAt, signal, cancelled>>

BMin(x, y) == IF x < y THEN x ELSE y
BMax(x, y) == IF x < y THEN y ELSE x

\* RestartPolicy::next_delay: the possible results.
NextDelay(d) ==
    LET base == d * Multiplier
        range == (base * jitter) \div 100
    IN  IF base >= MaxDelay THEN {MaxDelay}
        ELSE {BMin(n, MaxDelay) : n \in base - range .. base + range}

\* RestartStormGuard::prune.  The failures are in the order of time, so the expired
\* ones are the ones in front.
Prune(t) ==
    LET expired == {i \in 1..Len(failures) : t - failures[i] > Window}
    IN  SubSeq(failures, Cardinality(expired) + 1, Len(failures))

BInit ==
    /\ jitter \in JitterPercents
    /\ now = 0 /\ mode = "running" /\ since = 0
    /\ delay = InitialDelay /\ attempts = 0 /\ failures = <<>> /\ wakeAt = 0
    /\ signal = FALSE /\ cancelled = FALSE

\* on_starting of the next generation.
StartGeneration ==
    /\ mode' = "running"
    /\ since' = now

\* record_success() and reset()
ResetAll ==
    /\ delay' = InitialDelay
    /\ attempts' = 0
    /\ failures' = <<>>

\* Mutant of CleanExit: an immediate restart keeps the failure history.
CleanExitKeeps ==
    /\ mode = "running" /\ ~cancelled
    /\ StartGeneration
    /\ attempts' = 0
    /\ UNCHANGED <<jitter, now, delay, failures, wakeAt, signal, cancelled>>

\* on_outcome of Ok(()), and the Immediate branch of wait_for_restart.
CleanExit ==
    /\ mode = "running" /\ ~cancelled
    /\ StartGeneration
    /\ ResetAll
    /\ UNCHANGED <<jitter, now, wakeAt, signal, cancelled>>

\* on_outcome of a recoverable failure (maybe_reset of both), then
\* wait_for_restart up to its select!.
Fail ==
    /\ mode = "running" /\ ~cancelled
    /\ LET reset == now - since >= ResetAfter
           policy == IF reset THEN InitialDelay ELSE delay
           recent == Append(IF reset THEN <<>> ELSE Prune(now), now)
           storm == IF Len(recent) >= Threshold THEN Suppression ELSE 0
       IN  /\ delay' = policy
           /\ attempts' = IF reset THEN 0 ELSE attempts
           /\ failures' = recent
           /\ wakeAt' = now + BMax(policy, storm)
    /\ mode' = "waiting"
    /\ UNCHANGED <<jitter, now, since, signal, cancelled>>

\* wait_for_restart: the sleep ends; record_failure() advances the backoff.
Elapse ==
    /\ mode = "waiting" /\ now >= wakeAt
    /\ StartGeneration
    /\ attempts' = attempts + 1
    /\ delay' \in NextDelay(delay)
    /\ UNCHANGED <<jitter, now, failures, wakeAt, signal, cancelled>>

\* Mutant of Interrupt: the storm guard is not reset.
InterruptKeeps ==
    /\ mode = "waiting" /\ signal
    /\ StartGeneration
    /\ delay' = InitialDelay
    /\ attempts' = 0
    /\ signal' = FALSE
    /\ UNCHANGED <<jitter, now, failures, wakeAt, cancelled>>

\* wait_for_restart: a reload signal.
Interrupt ==
    /\ mode = "waiting" /\ signal
    /\ StartGeneration
    /\ ResetAll
    /\ signal' = FALSE
    /\ UNCHANGED <<jitter, now, wakeAt, cancelled>>

\* Shutdown, during the wait or (on_outcome's fast path) at the body's end, or
\* an error that is not restarted.
Stop ==
    /\ mode = "running" \/ (mode = "waiting" /\ cancelled)
    /\ mode' = "stopped"
    /\ UNCHANGED <<jitter, now, since, delay, attempts, failures, wakeAt, signal, cancelled>>

\* on_running takes a reload permit; the backoff is not involved until the
\* generation has ended.
ReloadRunning ==
    /\ mode = "running" /\ signal
    /\ signal' = FALSE
    /\ UNCHANGED <<jitter, now, mode, since, delay, attempts, failures, wakeAt, cancelled>>

(* The environment: trigger_reload, stop_all_services.   *)
Reload ==
    /\ mode # "stopped" /\ ~signal
    /\ signal' = TRUE
    /\ UNCHANGED <<jitter, now, mode, since, delay, attempts, failures, wakeAt, cancelled>>

Cancel ==
    /\ ~cancelled
    /\ cancelled' = TRUE
    /\ UNCHANGED <<jitter, now, mode, since, delay, attempts, failures, wakeAt, signal>>

\* A branch of the select! in on_running or wait_for_restart is ready.
Ready == signal \/ (mode = "waiting" /\ (now >= wakeAt \/ cancelled))

Tick ==
    /\ now < MaxTime
    /\ mode # "stopped" /\ ~Ready
    /\ now' = now + 1
    /\ UNCHANGED <<jitter, mode, since, delay, attempts, failures, wakeAt, signal, cancelled>>

BNext ==
    \/ CleanExit \/ Fail \/ Elapse \/ Interrupt \/ Stop \/ ReloadRunning
    \/ Reload \/ Cancel \/ Tick

BSpec == BInit /\ [][BNext]_bvars

(* ----------------------------- properties ------------------------------ *)

\* Without jitter the delay is the documented function of the consecutive failures,
\* min(max_delay, initial_delay * multiplier^attempts); with jitter it still never
\* exceeds the configured maximum.
DelayLaw ==
    InitialDelay <= MaxDelay =>
        /\ delay <= MaxDelay
        /\ jitter = 0 => delay = BMin(MaxDelay, InitialDelay * Multiplier ^ attempts)

\* Once a storm is detected, only a reload, a clean exit or shutdown gets the
\* service out of the wait before the suppression delay has passed.
StormHolds ==
    [][mode = "waiting" /\ Len(failures) >= Threshold /\ mode' = "running" /\ failures' # <<>>
         => now - failures[Len(failures)] >= Suppression]_bvars
=============================================================================
