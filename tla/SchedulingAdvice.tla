------------------------- MODULE SchedulingAdvice -------------------------
(***************************************************************************)
(* What is concluded from the diagnostics: the adaptive scheduling task      *)
(* (core/adaptive_scheduling.rs), which every 30 s compares two snapshots    *)
(* and logs recommendations when they change, and the interpretations that   *)
(* the public snapshot carries (models/diagnostics.rs), which look at the    *)
(* counters since the start.                                                 *)
(*                                                                          *)
(* An aggregate has the counters that are looked at: completed sleeps with   *)
(* their total and largest drift (of service sleeps for a service, of the    *)
(* runtime probe for a lane), and the lifecycle counters.  "fault" is panic, *)
(* fatal service error and provider init error together.                     *)
(***************************************************************************)
EXTENDS Integers, FiniteSets

CONSTANTS
    Standard, Isolated, HighPriority, Control,  \* runtime lanes
    Plain, Apart,           \* a service of the Standard lane, one of the Isolated lane
    MinSamples,             \* MINIMUM_COMPLETED_SAMPLES of both files
    HighDrift,              \* HIGH_AVG_DRIFT_MS of both files
    Unstable,               \* RESTART_INSTABILITY_THRESHOLD of both files
    IsolatedPressure,       \* ISOLATED_PRESSURE_THRESHOLD
    SleepDrifts, ProbeDrifts,   \* drifts considered
    MaxEvents, MaxTicks     \* bounds: recorded events, ticks of the interval

ASSUME AdviceAssumption ==
    /\ {MinSamples, HighDrift, Unstable, IsolatedPressure} \subseteq Nat \ {0}
    /\ SleepDrifts \cup ProbeDrifts \subseteq Nat

Lanes == {Control, Standard, HighPriority, Isolated}
Advised == {Plain, Apart}
LaneOf(s) == IF s = Plain THEN Standard ELSE Isolated
Entities == Lanes \cup Advised \cup (Advised \X (1..MaxEvents + 1))

VARIABLES
    agg,        \* the aggregates of the store
    number,     \* current generation per service
    ended,      \* services that are not restarted any more
    previous,   \* DiagnosticsSampler.previous
    ticks,
    advice,     \* recommendations of the last window that had a baseline
    told,       \* what the last log message said
    base, sum   \* the first snapshot; the sum of all windows since

avars == <<agg, number, ended, previous, ticks, advice, told, base, sum>>

Fields == {"completed", "drift", "worst", "restart", "backoff", "limited", "error", "fault", "startup"}
Zero == [f \in Fields |-> 0]
NoSnapshot == <<>>

AInit ==
    /\ agg = [e \in Entities |-> Zero]
    /\ number = [s \in Advised |-> 1] /\ ended = {}
    /\ previous = NoSnapshot /\ ticks = 0
    /\ advice = {} /\ told = {}
    /\ base = NoSnapshot /\ sum = [e \in Entities |-> Zero]

(* --------------------------- what is recorded --------------------------- *)

Events ==
    agg[Plain]["completed"] + agg[Standard]["completed"] + agg[Control]["completed"]
        + number[Plain] + number[Apart] - 2 + Cardinality(ended)

Observed(a, d) ==
    [a EXCEPT !["completed"] = @ + 1, !["drift"] = @ + d, !["worst"] = IF d > @ THEN d ELSE @]

\* context::sleep of the plain service.
Sleep ==
    /\ Events < MaxEvents
    /\ \E d \in SleepDrifts : agg' = [agg EXCEPT ![Plain] = Observed(@, d)]
    /\ UNCHANGED <<number, ended, previous, ticks, advice, told, base, sum>>

\* The probe of a lane.
Probe(l) ==
    /\ Events < MaxEvents
    /\ \E d \in ProbeDrifts : agg' = [agg EXCEPT ![l] = Observed(@, d)]
    /\ UNCHANGED <<number, ended, previous, ticks, advice, told, base, sum>>

Counted(a, fields) == [f \in Fields |-> IF f \in fields THEN a[f] + 1 ELSE a[f]]

\* handle_outcome: record_exit, and record_restart unless the service is over.
ExitFields(kind) ==
    CASE kind = "normal" -> {"restart"}
      [] kind = "error" -> {"error", "restart", "backoff"}
      [] kind = "storm" -> {"error", "restart", "backoff", "limited"}
      [] kind = "panic" -> {"fault", "restart", "backoff"}
      [] kind = "startup" -> {"startup", "restart", "backoff"}
      [] kind = "fatal" -> {"fault"}

Exit(s, kind) ==
    /\ s \notin ended /\ Events < MaxEvents
    /\ kind = "startup" => s = Apart
    /\ agg' = [e \in Entities |->
                 IF e \in {s, <<s, number[s]>>, LaneOf(s)}
                 THEN Counted(agg[e], ExitFields(kind)) ELSE agg[e]]
    /\ IF kind = "fatal" THEN ended' = ended \cup {s} /\ UNCHANGED number
                         ELSE number' = [number EXCEPT ![s] = @ + 1] /\ UNCHANGED ended
    /\ UNCHANGED <<previous, ticks, advice, told, base, sum>>

(* ---------------------------- recommendations --------------------------- *)

\* observation_window and lifecycle_window: the counters less the ones before.
Delta(p, c) ==
    [f \in Fields |-> IF f = "worst" THEN (IF c[f] > p[f] THEN c[f] ELSE 0) ELSE c[f] - p[f]]

Average(a) == IF a["completed"] = 0 THEN 0 ELSE a["drift"] \div a["completed"]

\* observation_has_drift_pressure, of both files.
DriftPressure(a) == a["completed"] >= MinSamples /\ Average(a) >= HighDrift

\* lifecycle_has_instability, of both files.
Instability(a) ==
    \/ a["limited"] > 0 \/ a["fault"] > 0
    \/ a["backoff"] >= Unstable \/ a["restart"] >= Unstable \/ a["error"] >= Unstable

\* lifecycle_has_isolated_pressure
IsolatedTrouble(a) == a["startup"] + a["limited"] >= IsolatedPressure

\* confidence_for_observation, of both files.
Confidence(a) ==
    IF a["completed"] >= 2 * MinSamples /\ Average(a) >= 2 * HighDrift THEN "High" ELSE "Medium"

Rec(e, action, reason, confidence, a) ==
    [target |-> e, action |-> action, reason |-> reason, confidence |-> confidence, obs |-> a]

\* evaluate_lane
LaneAdvice(w, l) ==
    LET reason == CASE l = Control -> "ControlPlanePressure"
                    [] l = Standard -> "StandardLanePressure"
                    [] l = HighPriority -> "HighPrioritySaturation"
                    [] l = Isolated -> "IsolatedResourcePressure"
        action == IF l = Control THEN "InvestigateControlPlane" ELSE "Observe"
    IN  {Rec(l, action, reason, Confidence(w[l]), w[l]) : x \in {y \in {1} : DriftPressure(w[l])}}
        \cup {Rec(l, "Observe", "IsolatedResourcePressure", "High", w[l]) :
                x \in {y \in {1} : l = Isolated /\ IsolatedTrouble(w[l])}}

\* evaluate_generation
GenerationAdvice(w, g) ==
    IF Instability(w[g]) THEN {Rec(g, "KeepCurrentLane", "LifecycleInstability", "High", w[g])}
    ELSE IF LaneOf(g[1]) = Isolated /\ IsolatedTrouble(w[g])
         THEN {Rec(g, "Observe", "IsolatedResourcePressure", "High", w[g])}
         ELSE {}

\* evaluate_service
ServiceAdvice(w, s, lanePressure, isolatedTrouble) ==
    IF Instability(w[s]) THEN {Rec(s, "KeepCurrentLane", "LifecycleInstability", "High", w[s])}
    ELSE IF LaneOf(s) # Standard \/ ~DriftPressure(w[s]) THEN {}
    ELSE {Rec(s, IF lanePressure \/ isolatedTrouble THEN "Observe" ELSE "ConsiderIsolation",
              "StandardServiceSleepDrift", "Low", w[s])}

Generations == {g \in Advised \X (1..MaxEvents + 1) : g[2] <= number[g[1]]}

\* SchedulingPolicyEvaluator::evaluate
Evaluate(w) ==
    LET lanePressure == DriftPressure(w[Standard])
        isolatedTrouble == \/ IsolatedTrouble(w[Isolated])
                           \/ \E g \in Generations : LaneOf(g[1]) = Isolated /\ IsolatedTrouble(w[g])
    IN  UNION {LaneAdvice(w, l) : l \in Lanes}
        \cup UNION {GenerationAdvice(w, g) : g \in Generations}
        \cup UNION {ServiceAdvice(w, s, lanePressure, isolatedTrouble) : s \in Advised}

\* recommendation_fingerprint: every part of every recommendation.
Fingerprint(recs) == recs

\* Mutant of TickWindow: the snapshot becomes the baseline only when something is said.
TickWindowKeeps ==
    /\ previous # NoSnapshot
    /\ LET w == [e \in Entities |-> Delta(previous[e], agg[e])]
           recs == Evaluate(w)
       IN  /\ advice' = recs
           /\ told' = IF Fingerprint(recs) # Fingerprint(told) THEN recs ELSE told
           /\ previous' = IF recs # {} THEN agg ELSE previous
           /\ sum' = [e \in Entities |-> [f \in Fields |-> sum[e][f] + w[e][f]]]
    /\ UNCHANGED base

\* sample() with a baseline; the message is logged when the fingerprint has changed.
TickWindow ==
    /\ previous # NoSnapshot
    /\ LET w == [e \in Entities |-> Delta(previous[e], agg[e])]
           recs == Evaluate(w)
       IN  /\ advice' = recs
           /\ told' = IF Fingerprint(recs) # Fingerprint(told) THEN recs ELSE told
           /\ sum' = [e \in Entities |-> [f \in Fields |-> sum[e][f] + w[e][f]]]
    /\ previous' = agg
    /\ UNCHANGED base

\* The first sample has no baseline and is only kept.
TickFirst ==
    /\ previous = NoSnapshot
    /\ previous' = agg /\ base' = agg
    /\ UNCHANGED <<advice, told, sum>>

\* run_adaptive_scheduling_recommendations: a tick of the interval.
Tick ==
    /\ ticks < MaxTicks /\ ticks' = ticks + 1
    /\ TickFirst \/ TickWindow
    /\ UNCHANGED <<agg, number, ended>>

ANext ==
    \/ Sleep \/ Tick
    \/ \E l \in {Standard, Control} : Probe(l)
    \/ \E s \in Advised : \E kind \in {"normal", "error", "storm", "panic", "startup", "fatal"} : Exit(s, kind)

ASpec == AInit /\ [][ANext]_avars

(* ---------------------------- interpretations --------------------------- *)

(* ------------------------------ properties ------------------------------ *)

\* The advisor overlooks nothing.  Every counter change is in exactly one window: the
\* windows since the first snapshot add up to what was counted between it and the last
\* one (DiagnosticsSampler); and the message logged last is about the recommendations
\* that hold now, so nothing that changed in them goes unsaid.
NothingOverlooked ==
    /\ previous # NoSnapshot =>
         \A e \in Entities : \A f \in Fields \ {"worst"} : sum[e][f] = previous[e][f] - base[e][f]
    /\ told = advice
=============================================================================
