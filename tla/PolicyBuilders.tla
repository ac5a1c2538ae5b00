--------------------------- MODULE PolicyBuilders ---------------------------
(***************************************************************************)
(* The policy builders of models/policy.rs: RestartPolicyBuilder, which     *)
(* sanitises its floats, ScalingPolicyBuilder, which clamps in its setters   *)
(* and once more in build(), next to ScalingPolicy::try_new, which refuses,  *)
(* and TriggerPolicyOverlayBuilder, which validates.  Setters come in any    *)
(* order and repeatedly.  A RestartPolicy has public fields, so a caller can *)
(* also write one that no builder has seen.                                  *)
(*                                                                          *)
(* Floats are NaN, Inf or a number of halves; durations are small naturals;  *)
(* an Option is a set of at most one value.  Fields the code only copies are *)
(* left out.                                                                 *)
(***************************************************************************)
EXTENDS Integers

CONSTANTS
    Counts,     \* arguments of the usize setters
    MaxHalves,  \* the finite floats are -1 .. MaxHalves halves
    MaxSets     \* bound: setter calls

ASSUME PolicyAssumption == Counts \subseteq Nat /\ MaxHalves \in Nat

VARIABLES
    asked,      \* the last argument of each scaling setter
    scaling,    \* ScalingPolicyBuilder.policy
    restart,    \* the RestartPolicy at hand
    written,    \* its fields were written past the builder
    overlay,    \* TriggerPolicyOverlayBuilder
    sets        \* setter calls so far

pvars == <<asked, scaling, restart, written, overlay, sets>>

NaN == -1000
Inf == 1000
Floats == {NaN, Inf} \cup (-1..MaxHalves)
One == 2    \* 1.0 in halves
Finite(x) == x \notin {NaN, Inf}
PMin(x, y) == IF x < y THEN x ELSE y
PMax(x, y) == IF x < y THEN y ELSE x

(* ---------------------------- RestartPolicy ----------------------------- *)

SanitizedMultiplier(x) == IF Finite(x) /\ x > 0 THEN x ELSE One

SanitizedJitter(x) == IF Finite(x) THEN PMin(PMax(x, 0), One) ELSE 0

\* RestartPolicyBuilder::multiplier, jitter_factor.
SetRestart ==
    /\ \E x \in Floats :
         \/ restart' = [restart EXCEPT !.multiplier = SanitizedMultiplier(x)]
         \/ restart' = [restart EXCEPT !.jitter = SanitizedJitter(x)]
    /\ UNCHANGED <<asked, scaling, written, overlay>>

\* A struct literal or an assignment to a public field.
WriteRestart ==
    /\ \E x \in Floats : \E f \in {"multiplier", "jitter"} : restart' = [restart EXCEPT ![f] = x]
    /\ written' = TRUE
    /\ UNCHANGED <<asked, scaling, overlay>>

\* The floats next_delay works with.
Used(policy) == [multiplier |-> SanitizedMultiplier(policy.multiplier),
                 jitter |-> SanitizedJitter(policy.jitter)]

(* ---------------------------- ScalingPolicy ----------------------------- *)

ScalingFields == {"initial", "max", "factor", "threshold"}
ScalingDefault == [initial |-> 1, max |-> 64, factor |-> 2, threshold |-> 5]
Least == [initial |-> 1, max |-> 1, factor |-> 2, threshold |-> 1]

\* Mutant of SetScaling: max_concurrency also lowers what is there.
SetScalingLowers ==
    /\ \E f \in ScalingFields, n \in Counts :
         /\ asked' = [asked EXCEPT ![f] = n]
         /\ scaling' = [scaling EXCEPT ![f] = PMax(n, Least[f]),
                                       !["initial"] = IF f = "max" THEN PMin(@, PMax(n, 1)) ELSE
                                                      IF f = "initial" THEN PMax(n, 1) ELSE @]
    /\ UNCHANGED <<restart, written, overlay>>

\* ScalingPolicyBuilder's setters.
SetScaling ==
    /\ \E f \in ScalingFields, n \in Counts :
         /\ asked' = [asked EXCEPT ![f] = n]
         /\ scaling' = [scaling EXCEPT ![f] = PMax(n, Least[f])]
    /\ UNCHANGED <<restart, written, overlay>>

\* ScalingPolicyBuilder::build
BuildScaling(b) == [b EXCEPT !.initial = PMin(@, b.max)]

\* ScalingPolicy::try_new succeeds.
TryNew(a) ==
    /\ a.initial # 0 /\ a.max # 0 /\ a.factor >= 2 /\ a.threshold # 0
    /\ a.initial <= a.max

(* ------------------------- TriggerPolicyOverlay ------------------------- *)

NoOverlay == [reason |-> "blank", ttl |-> 0, limit |-> {}, timeout |-> {}, retry |-> {}]

\* TriggerPolicyOverlay::builder and the setters.
SetOverlay ==
    /\ \/ \E r \in {"blank", "text"}, t \in {0, 1} : overlay' = [NoOverlay EXCEPT !.reason = r, !.ttl = t]
       \/ \E n \in Counts : overlay' = [overlay EXCEPT !.limit = {n}]
       \/ \E t \in {0, 1} : overlay' = [overlay EXCEPT !.timeout = {t}]
       \/ overlay' = [overlay EXCEPT !.retry = {restart}]
    /\ UNCHANGED <<asked, scaling, restart, written>>

\* validate_retry_policy
RetryRefused(policy) ==
    \/ ~Finite(policy.multiplier) \/ policy.multiplier <= 0
    \/ ~Finite(policy.jitter) \/ policy.jitter \notin 0..One

\* TriggerPolicyOverlay::validate_shape, in the order of its checks.
ValidateShape(o) ==
    IF o.reason = "blank" THEN "EmptyReason"
    ELSE IF o.ttl = 0 THEN "TtlIsZero"
    ELSE IF o.limit = {} /\ o.timeout = {} /\ o.retry = {} THEN "EmptyOverlay"
    ELSE IF o.limit = {0} THEN "ConcurrencyLimitZero"
    ELSE IF o.timeout = {0} THEN "DispatchTimeoutZero"
    ELSE IF \E policy \in o.retry : RetryRefused(policy) THEN "InvalidRetry"
    ELSE "ok"

(* ---------------------------- specification ----------------------------- *)

PInit ==
    /\ asked = ScalingDefault /\ scaling = ScalingDefault
    /\ restart = [multiplier |-> 2 * One, jitter |-> 0] /\ written = FALSE
    /\ overlay = NoOverlay /\ sets = 0

PNext ==
    /\ sets < MaxSets /\ sets' = sets + 1
    /\ SetRestart \/ WriteRestart \/ SetScaling \/ SetOverlay

PSpec == PInit /\ [][PNext]_pvars

(* ------------------------------ properties ------------------------------ *)

\* Builders, validation and use agree on what a policy may be.  Whatever the order
\* of the setters, the scaling builder's policy is one try_new accepts, and exactly
\* what was asked for when try_new accepts that (TriggerConcurrency assumes as much
\* of its constants); a policy out of RestartPolicyBuilder is never the reason an
\* overlay is refused; and the retry policy of an accepted overlay is used as it was
\* written, next_delay's sanitising leaving it alone.
PoliciesAgree ==
    LET built == BuildScaling(scaling)
    IN  /\ TryNew(built) /\ (TryNew(asked) => built = asked)
        /\ ~written => ~RetryRefused(restart)
        /\ ValidateShape(overlay) = "ok" => \A policy \in overlay.retry : Used(policy) = policy
=============================================================================
