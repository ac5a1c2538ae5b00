---------------------------- MODULE ProviderInit ----------------------------
(***************************************************************************)
(* init_fallible_with_source (core/provider_init.rs): one provider's init    *)
(* function, tried until it succeeds, fails for good, is cancelled or runs   *)
(* out of provider_init_timeout.                                            *)
(*                                                                          *)
(* The loop has a BackoffController of its own: jitter, delay, attempts and  *)
(* NextDelay are RestartBackoff's, as are the clock and the cancellation     *)
(* token; no supervisor runs here (mode is "stopped").  An init function     *)
(* either suspends, and then the deadline and the token can end the attempt, *)
(* or it blocks its thread, and then neither is looked at before it returns. *)
(* A message is the number of the attempt it came from.                      *)
(***************************************************************************)
EXTENDS RestartBackoff

CONSTANTS
    DaemonTimeout,      \* provider_init_timeout of the daemon's policy
    DefaultTimeout,     \* the one of RestartPolicy::default()
    RecentLimit         \* PROVIDER_INIT_RECENT_ERROR_LIMIT

ASSUME ProviderInitAssumption ==
    /\ {DaemonTimeout, DefaultTimeout, RecentLimit} \subseteq Nat \ {0}
    /\ DaemonTimeout < MaxTime /\ DefaultTimeout < MaxTime

VARIABLES
    lazy,       \* called by a generated resolve function, not by the eager init function
    stage,      \* "off", "attempt", "blocked", "backoff", "done"
    retries,    \* retry_attempts
    recent,     \* recent_retryable_errors
    tried,      \* when the last attempt began
    late,       \* attempts begun after the token was cancelled
    verdict     \* [kind, source], once done

ivars == <<lazy, stage, retries, recent, tried, late, verdict>>
shared == <<jitter, mode, since, failures, signal>>

\* The eager init function gets the daemon's policy; the resolve functions use
\* RestartPolicy::default().
InitTimeout == IF lazy THEN DefaultTimeout ELSE DaemonTimeout
Deadline == since + InitTimeout

Undecided == [kind |-> "none", source |-> "none"]

OffInit ==
    /\ lazy = FALSE /\ stage = "off" /\ retries = 0 /\ recent = <<>> /\ tried = 0 /\ late = 0
    /\ verdict = Undecided

IInit ==
    /\ jitter \in JitterPercents
    /\ now = 0 /\ since = 0 /\ mode = "stopped" /\ failures = <<>> /\ signal = FALSE
    /\ delay = InitialDelay /\ attempts = 0 /\ wakeAt = 0
    /\ cancelled \in BOOLEAN
    /\ lazy \in BOOLEAN
    /\ stage \in {"attempt", "blocked"}
    /\ retries = 0 /\ recent = <<>> /\ tried = 0 /\ verdict = Undecided
    /\ late = IF cancelled THEN 1 ELSE 0

Attempting == stage \in {"attempt", "blocked"}

\* provider_init_timeout_source
TimeoutSource == IF retries = 0 THEN "AttemptTimeout" ELSE "RetryableTimeout"

Finish(kind, source) ==
    /\ stage' = "done"
    /\ verdict' = [kind |-> kind, source |-> source]

\* provider_init_timeout_failure: its retry diagnostics are `retries' and `recent'.
TimeoutFailure(source) == Finish("Timeout", source)

\* The attempt ends, with a value or with an error that is not retried; a panic
\* of the init function is caught outside the loop and is fatal too.
AttemptDecides ==
    /\ Attempting
    /\ \/ Finish("Ok", "none")
       \/ Finish("Fatal", "UserProviderFatal")
       \/ Finish("Fatal", "Panic")
    /\ UNCHANGED <<shared, now, delay, attempts, wakeAt, cancelled, lazy, retries, recent, tried, late>>

\* push_recent_retryable_error
PushRecent(m) == Append(IF Len(recent) = RecentLimit THEN Tail(recent) ELSE recent, m)

\* Mutant of SleepFor: the wait is not cut at the deadline.
SleepForDelay == delay

\* min(backoff.current_delay(), remaining)
SleepFor == BMin(delay, Deadline - now)

\* A retryable error: the deadline again, then the wait.
AttemptRetryable ==
    /\ Attempting
    /\ retries' = retries + 1
    /\ recent' = PushRecent(retries + 1)
    /\ IF now >= Deadline
       THEN TimeoutFailure("RetryableTimeout") /\ UNCHANGED wakeAt
       ELSE stage' = "backoff" /\ wakeAt' = now + SleepFor /\ UNCHANGED verdict
    /\ UNCHANGED <<shared, now, delay, attempts, cancelled, lazy, tried, late>>

\* timeout(remaining, init()) elapses while the attempt is suspended.
AttemptExpired == stage = "attempt" /\ now >= Deadline

AttemptTimesOut ==
    /\ AttemptExpired
    /\ TimeoutFailure(TimeoutSource)
    /\ UNCHANGED <<shared, now, delay, attempts, wakeAt, cancelled, lazy, retries, recent, tried, late>>

\* The select! around the attempt, and wait_or_cancel_or_timeout.
SeesToken == cancelled /\ stage \in {"attempt", "backoff"}

InitCancelled ==
    /\ SeesToken
    /\ Finish("Cancelled", "Cancelled")
    /\ UNCHANGED <<shared, now, delay, attempts, wakeAt, cancelled, lazy, retries, recent, tried, late>>

\* The wait is over: record_failure, and the top of the loop.
BackoffEnds ==
    /\ stage = "backoff" /\ now >= wakeAt
    /\ attempts' = attempts + 1 /\ delay' \in NextDelay(delay)
    /\ IF now >= Deadline
       THEN TimeoutFailure(TimeoutSource) /\ UNCHANGED <<tried, late>>
       ELSE /\ stage' \in {"attempt", "blocked"} /\ tried' = now
            /\ late' = IF cancelled THEN late + 1 ELSE late
            /\ UNCHANGED verdict
    /\ UNCHANGED <<shared, now, wakeAt, cancelled, lazy, retries, recent>>

(* The environment. *)
InitCancel ==
    /\ stage # "done" /\ ~cancelled
    /\ cancelled' = TRUE
    /\ UNCHANGED <<shared, now, delay, attempts, wakeAt, ivars>>

\* A suspended loop is polled before time passes; a blocked thread is not polled.
InitTick ==
    /\ stage # "done" /\ now < MaxTime
    /\ ~SeesToken /\ ~AttemptExpired
    /\ ~(stage = "backoff" /\ now >= wakeAt)
    /\ now' = now + 1
    /\ UNCHANGED <<shared, delay, attempts, wakeAt, cancelled, ivars>>

Returns == AttemptDecides \/ AttemptRetryable

INext ==
    /\ stage # "off"
    /\ \/ Returns \/ AttemptTimesOut \/ InitCancelled \/ BackoffEnds \/ InitCancel \/ InitTick

ISpec == IInit /\ [][INext]_<<bvars, ivars>>

(* ------------------------------ properties ------------------------------ *)

\* The policy never makes the loop wait for nothing.
DelaysPositive == InitialDelay > 0 /\ MaxDelay > 0 /\ jitter < 100

\* An initialisation is bounded.  provider_init_timeout bounds the sum of the attempts
\* and of the waits between them, whatever the backoff: no attempt begins at or after
\* the deadline, and a loop whose init function suspends is over at it, so only a
\* thread that is blocked inside init() can be late; and after its token is cancelled
\* the loop begins at most one more attempt, unless a wait of zero can win the select!
\* of wait_or_cancel_or_timeout against the token again and again.
InitBounded ==
    /\ stage # "off" => tried < Deadline
    /\ stage \notin {"off", "done", "blocked"} => now <= Deadline
    /\ DelaysPositive => late <= 1
=============================================================================
