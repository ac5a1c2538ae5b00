-------------------------- MODULE ObservationStats --------------------------
(***************************************************************************)
(* The counters of one aggregate (ObservationStats of core/diagnostics.rs),  *)
(* which several threads update at once: each atomic operation is a step, in *)
(* a sequentially consistent order.                                          *)
(* The recorders are runtime probes (run_lane_runtime_probe,                 *)
(* run_generation_runtime_probe) and context::sleep calls: they record       *)
(* completed sleeps, and an interrupted one when they are cancelled.         *)
(***************************************************************************)
EXTENDS Integers, Sequences, FiniteSets

CONSTANTS
    Recorders,
    Drifts,         \* drifts that a completed sleep may have
    MaxSleeps       \* bound: completed sleeps per recorder

ASSUME StatsAssumption == IsFiniteSet(Recorders) /\ Drifts \subseteq Nat

VARIABLES
    completed, interrupted, total, last, most,  \* the atomics; most is max_drift_ns
    at,         \* per recorder: the atomic operation that is next
    drift,      \* per recorder: of the observation being recorded
    seen,       \* per recorder: current in update_max
    recorded    \* per recorder: the drifts of the completed sleeps recorded so far

ovars == <<completed, interrupted, total, last, most, at, drift, seen, recorded>>

OInit ==
    /\ completed = 0 /\ interrupted = 0 /\ total = 0 /\ last = 0 /\ most = 0
    /\ at = [r \in Recorders |-> "sleep"] /\ drift = [r \in Recorders |-> 0]
    /\ seen = [r \in Recorders |-> 0] /\ recorded = [r \in Recorders |-> <<>>]

To(r, l) == at' = [at EXCEPT ![r] = l]

\* The sleep is over: runtime_probe_observation, and record(Completed, ..).
SleepCompletes(r) ==
    /\ at[r] = "sleep" /\ Len(recorded[r]) < MaxSleeps
    /\ \E d \in Drifts : /\ drift' = [drift EXCEPT ![r] = d]
                         /\ recorded' = [recorded EXCEPT ![r] = Append(@, d)]
    /\ To(r, "completed")
    /\ UNCHANGED <<completed, interrupted, total, last, most, seen>>

\* The token is cancelled: record(ProbeCancelled, ..), and the loop ends.
SleepInterrupted(r) ==
    /\ at[r] = "sleep"
    /\ interrupted' = interrupted + 1
    /\ To(r, "gone")
    /\ UNCHANGED <<completed, total, last, most, drift, seen, recorded>>

AddCompleted(r) ==
    /\ at[r] = "completed"
    /\ completed' = completed + 1
    /\ To(r, "total")
    /\ UNCHANGED <<interrupted, total, last, most, drift, seen, recorded>>

AddTotal(r) ==
    /\ at[r] = "total"
    /\ total' = total + drift[r]
    /\ To(r, "last")
    /\ UNCHANGED <<completed, interrupted, last, most, drift, seen, recorded>>

StoreLastDrift(r) ==
    /\ at[r] = "last"
    /\ last' = drift[r]
    /\ To(r, "load")
    /\ UNCHANGED <<completed, interrupted, total, most, drift, seen, recorded>>

\* update_max: the load.
LoadMost(r) ==
    /\ at[r] = "load"
    /\ seen' = [seen EXCEPT ![r] = most]
    /\ To(r, "cas")
    /\ UNCHANGED <<completed, interrupted, total, last, most, drift, recorded>>

\* Mutant of CasMost: a failed exchange is not tried again.
CasMostOnce(r) ==
    /\ at[r] = "cas"
    /\ most' = IF drift[r] > seen[r] /\ most = seen[r] THEN drift[r] ELSE most
    /\ To(r, "sleep")
    /\ UNCHANGED <<completed, interrupted, total, last, drift, seen, recorded>>

\* update_max: done, exchanged, or once more (a weak exchange may fail for no reason).
CasMost(r) ==
    /\ at[r] = "cas"
    /\ \/ drift[r] <= seen[r] /\ UNCHANGED <<most, seen>> /\ To(r, "sleep")
       \/ drift[r] > seen[r] /\ most = seen[r] /\ most' = drift[r] /\ UNCHANGED seen /\ To(r, "sleep")
       \/ drift[r] > seen[r] /\ seen' = [seen EXCEPT ![r] = most] /\ UNCHANGED <<most, at>>
    /\ UNCHANGED <<completed, interrupted, total, last, drift, recorded>>

RecordSteps(r) ==
    SleepCompletes(r) \/ SleepInterrupted(r) \/ AddCompleted(r) \/ AddTotal(r) \/ StoreLastDrift(r)
        \/ LoadMost(r) \/ CasMost(r)

ONext == \E r \in Recorders : RecordSteps(r)

OSpec == OInit /\ [][ONext]_ovars

(* ------------------------------ properties ------------------------------ *)

\* The completed sleeps, by recorder and number, and their drifts.
All == UNION {{r} \X (1..Len(recorded[r])) : r \in Recorders}
DriftOf(x) == recorded[x[1]][x[2]]

\* The nanoseconds of drift of some of them, one element each.
Nanoseconds(S) == UNION {{x} \X (1..DriftOf(x)) : x \in S}

Quiet == \A r \in Recorders : at[r] \in {"sleep", "gone"}

\* Once the recorders are between two observations, the counters are exactly those of
\* the completed sleeps, the maximum included, however the updates interleaved.
StatsExact ==
    Quiet =>
        /\ completed = Cardinality(All)
        /\ total = Cardinality(Nanoseconds(All))
        /\ \A x \in All : DriftOf(x) <= most
        /\ {most, last} \subseteq {DriftOf(x) : x \in All} \cup {0}
=============================================================================
