------------------------- MODULE TriggerConcurrency -------------------------
(***************************************************************************)
(* The concurrency limit of one trigger generation: its semaphore and       *)
(* current_limit, temporary overlays (trigger_policy_overlay.rs) and the    *)
(* scale monitor (trigger_runner/scaling.rs).                               *)
(*                                                                          *)
(* Two tasks reconcile the limit: "dispatch", the event loop, before it     *)
(* awaits a permit, and "monitor", once a second.  Reconciliation runs      *)
(* under the record's `reconcile' mutex, but what it is asked to reach was  *)
(* read before, and permits are taken and released meanwhile.  The overlay  *)
(* state has a mutex of its own, so each access to it is one step.          *)
(*                                                                          *)
(* A released permit is first available, then acquired: tokio hands it to   *)
(* a queued waiter directly, so the model has more interleavings.  Whether  *)
(* scale_cooldown has passed is left open.                                  *)
(***************************************************************************)
EXTENDS Integers

CONSTANTS
    Initial, MaxConc,       \* ScalingPolicy: initial_concurrency, max_concurrency
    Factor, Threshold       \* ScalingPolicy: scale_factor, scale_threshold

ASSUME ConcurrencyAssumption ==
    /\ Initial \in Nat \ {0} /\ MaxConc \in Nat \ {0} /\ Initial <= MaxConc
    /\ Factor \in Nat \ {0, 1} /\ Threshold \in Nat \ {0}

VARIABLES
    limit,      \* current_limit
    avail,      \* semaphore.available_permits()
    held,       \* permits held by dispatch tasks
    ovl,        \* the overlay: "none", "active", or "expired" but not yet pruned
    ovlLimit,   \* its concurrency_limit, 0 if it has none
    restore,    \* restore_base_on_next_reconcile
    pc,         \* where "dispatch" and "monitor" are
    target,     \* base_target, then desired
    lock,       \* holder of the reconcile mutex, or "free"
    todo,       \* permits still to revoke
    revoked,    \* permits revoked so far
    mLimit,     \* the monitor's reading of current_limit
    mAvail      \* the monitor's reading of available_permits

overlayVars == <<ovl, ovlLimit, restore>>
sampleVars == <<mLimit, mAvail>>
cvars == <<limit, avail, held, ovl, ovlLimit, restore, pc, target, lock, todo, revoked,
           mLimit, mAvail>>

Procs == {"dispatch", "monitor"}
CMin(x, y) == IF x < y THEN x ELSE y
CMax(x, y) == IF x < y THEN y ELSE x
SatSub(x, y) == CMax(x - y, 0)

CInit ==
    /\ limit = Initial /\ avail = Initial /\ held = 0
    /\ ovl = "none" /\ ovlLimit = 0 /\ restore = FALSE
    /\ pc = [p \in Procs |-> "idle"]
    /\ target = [p \in Procs |-> Initial]
    /\ lock = "free" /\ todo = 0 /\ revoked = 0
    /\ mLimit = Initial /\ mAvail = Initial

(* ------------------------------ overlays ------------------------------- *)

\* take_expired_overlay: what pruning leaves.
LiveLimit == IF ovl = "active" THEN ovlLimit ELSE 0
LiveRestore == restore \/ (ovl = "expired" /\ ovlLimit > 0)

\* prune_expired_overlay
Prune ==
    /\ ovl' = IF ovl = "expired" THEN "none" ELSE ovl
    /\ ovlLimit' = LiveLimit
    /\ restore' = LiveRestore

\* request_overlay, accepted: l is the concurrency limit, 0 for none.
Request(l) ==
    /\ l <= MaxConc
    /\ ovl' = "active"
    /\ ovlLimit' = l
    /\ restore' = (ovlLimit > 0 /\ l = 0)
    /\ UNCHANGED <<limit, avail, held, pc, target, lock, todo, revoked, sampleVars>>

\* clear_overlay
Clear ==
    /\ ovl # "none"
    /\ ovl' = "none" /\ ovlLimit' = 0
    /\ restore' = (restore \/ ovlLimit > 0)
    /\ UNCHANGED <<limit, avail, held, pc, target, lock, todo, revoked, sampleVars>>

\* The overlay's ttl passes.
Expire ==
    /\ ovl = "active"
    /\ ovl' = "expired"
    /\ UNCHANGED <<limit, avail, held, ovlLimit, restore, pc, target, lock, todo, revoked, sampleVars>>

(* --------------------------- scale monitor ----------------------------- *)

\* scale_down_target; `cooled': idle for scale_cooldown.
ScaleDownTarget(l, max, cooled) ==
    LET initial == CMax(CMin(Initial, max), 1)
    IN  IF cooled /\ l > initial THEN initial ELSE CMax(CMin(l, max), 1)

\* scale_up_target with pressure_limit_for and next_scaled_limit.
ScaleUpTarget(l, inFlight, effective) ==
    LET max == CMax(CMin(MaxConc, effective), 1)
    IN  IF l >= max \/ inFlight < (l * Threshold) \div (Threshold + 1)
        THEN CMax(CMin(l, max), 1)
        ELSE CMin(CMin(l * Factor, MaxConc), max)

MonitorLimit ==
    /\ pc["monitor"] = "idle"
    /\ mLimit' = limit
    /\ pc' = [pc EXCEPT !["monitor"] = "avail"]
    /\ UNCHANGED <<limit, avail, held, overlayVars, target, lock, todo, revoked, mAvail>>

MonitorAvail ==
    /\ pc["monitor"] = "avail"
    /\ mAvail' = avail
    /\ pc' = [pc EXCEPT !["monitor"] = "prune"]
    /\ UNCHANGED <<limit, avail, held, overlayVars, target, lock, todo, revoked, mLimit>>

\* effective_concurrency_limit prunes, then reads the overlay again.
MonitorPrune ==
    /\ pc["monitor"] = "prune"
    /\ Prune
    /\ pc' = [pc EXCEPT !["monitor"] = "scale"]
    /\ UNCHANGED <<limit, avail, held, target, lock, todo, revoked, sampleVars>>

\* active_concurrency_limit_for, and the target of the idle or the active path.
MonitorTarget ==
    /\ pc["monitor"] = "scale"
    /\ LET inFlight == SatSub(mLimit, mAvail)
           effective == IF ovlLimit > 0 THEN ovlLimit ELSE MaxConc
       IN  \E cooled \in BOOLEAN :
             target' = [target EXCEPT !["monitor"] =
                          IF inFlight = 0 THEN ScaleDownTarget(mLimit, effective, cooled)
                          ELSE ScaleUpTarget(mLimit, inFlight, effective)]
    /\ pc' = [pc EXCEPT !["monitor"] = "lock"]
    /\ UNCHANGED <<limit, avail, held, overlayVars, lock, todo, revoked, sampleVars>>

(* --------------------------- reconciliation ---------------------------- *)

\* apply_effective_concurrency: current_limit_or_base.
BeginDispatch ==
    /\ pc["dispatch"] = "idle"
    /\ target' = [target EXCEPT !["dispatch"] = limit]
    /\ pc' = [pc EXCEPT !["dispatch"] = "lock"]
    /\ UNCHANGED <<limit, avail, held, overlayVars, lock, todo, revoked, sampleVars>>

\* reconcile_effective_concurrency: lock, prune, choose.
Decide(p) ==
    /\ pc[p] = "lock" /\ lock = "free"
    /\ lock' = p
    /\ ovl' = IF ovl = "expired" THEN "none" ELSE ovl
    /\ ovlLimit' = LiveLimit
    /\ restore' = FALSE
    /\ target' = [target EXCEPT ![p] = IF LiveLimit > 0 THEN LiveLimit
                                       ELSE IF LiveRestore THEN Initial ELSE @]
    /\ pc' = [pc EXCEPT ![p] = "reconcile"]
    /\ UNCHANGED <<limit, avail, held, todo, revoked, sampleVars>>

\* reconcile_concurrency_limit returns; the mutex is released.
Finish(p) ==
    /\ lock' = "free"
    /\ pc' = [pc EXCEPT ![p] = IF p = "dispatch" THEN "acquire" ELSE "idle"]

\* reconcile_concurrency_limit up to add_permits, or to its revocation loop.
Reconcile(p) ==
    LET want == CMax(CMin(target[p], MaxConc), 1)
    IN  /\ pc[p] = "reconcile"
        /\ target' = [target EXCEPT ![p] = want]
        /\ revoked' = 0
        /\ \/ /\ want > limit
              /\ avail' = avail + (want - limit)
              /\ pc' = [pc EXCEPT ![p] = "store"]
              /\ UNCHANGED <<lock, todo>>
           \/ /\ want < limit
              /\ todo' = SatSub(limit, CMax(want, SatSub(limit, avail)))
              /\ pc' = [pc EXCEPT ![p] = "revoke"]
              /\ UNCHANGED <<lock, avail>>
           \/ /\ want = limit
              /\ Finish(p)
              /\ UNCHANGED <<avail, todo>>
        /\ UNCHANGED <<limit, held, overlayVars, sampleVars>>

StoreLimit(p) ==
    /\ pc[p] = "store"
    /\ limit' = target[p]
    /\ Finish(p)
    /\ UNCHANGED <<avail, held, overlayVars, target, todo, revoked, sampleVars>>

\* try_acquire().forget()
Revoke(p) ==
    /\ pc[p] = "revoke" /\ todo > 0 /\ avail > 0
    /\ avail' = avail - 1
    /\ todo' = todo - 1
    /\ revoked' = revoked + 1
    /\ UNCHANGED <<limit, held, overlayVars, pc, target, lock, sampleVars>>

\* All are revoked, or try_acquire found none: current_limit is stored.
RevokeEnd(p) ==
    /\ pc[p] = "revoke" /\ (todo = 0 \/ avail = 0)
    /\ limit' = limit - revoked
    /\ Finish(p)
    /\ UNCHANGED <<avail, held, overlayVars, target, todo, revoked, sampleVars>>

(* ------------------------------ dispatch ------------------------------- *)

\* acquire_owned returns a permit.
Acquire ==
    /\ pc["dispatch"] = "acquire" /\ avail > 0
    /\ avail' = avail - 1
    /\ held' = held + 1
    /\ pc' = [pc EXCEPT !["dispatch"] = "policy"]
    /\ UNCHANGED <<limit, overlayVars, target, lock, todo, revoked, sampleVars>>

\* effective_policy; the task is spawned and the loop goes on.
EffectivePolicy ==
    /\ pc["dispatch"] = "policy"
    /\ Prune
    /\ pc' = [pc EXCEPT !["dispatch"] = "idle"]
    /\ UNCHANGED <<limit, avail, held, target, lock, todo, revoked, sampleVars>>

\* Mutant of Release: the permit of a failed dispatch is not returned.
ReleaseLeaks ==
    /\ held > 0
    /\ held' = held - 1
    /\ UNCHANGED <<limit, avail, overlayVars, pc, target, lock, todo, revoked, sampleVars>>

\* A dispatch task ends, or is aborted: drop(permit).
Release ==
    /\ held > 0
    /\ held' = held - 1
    /\ avail' = avail + 1
    /\ UNCHANGED <<limit, overlayVars, pc, target, lock, todo, revoked, sampleVars>>

ReconcileStep(p) == Decide(p) \/ Reconcile(p) \/ StoreLimit(p) \/ Revoke(p) \/ RevokeEnd(p)
MonitorStep == MonitorLimit \/ MonitorAvail \/ MonitorPrune \/ MonitorTarget
               \/ ReconcileStep("monitor")
DispatchStep == BeginDispatch \/ EffectivePolicy \/ ReconcileStep("dispatch")

CNext ==
    \/ MonitorStep \/ DispatchStep \/ Acquire \/ Release
    \/ \E l \in 0..(MaxConc + 1) : Request(l)
    \/ Clear \/ Expire

CSpec == CInit /\ [][CNext]_cvars

\* Both tasks run, dispatches end, and the semaphore serves its queue in order.
CFairSpec ==
    /\ CSpec
    /\ WF_cvars(MonitorStep) /\ WF_cvars(DispatchStep) /\ WF_cvars(Release) /\ SF_cvars(Acquire)

(* ----------------------------- properties ------------------------------ *)

CTypeOK ==
    /\ {limit, avail, held, ovlLimit, todo, revoked, mLimit, mAvail} \subseteq Nat
    /\ ovl \in {"none", "active", "expired"}
    /\ restore \in BOOLEAN
    /\ pc \in [Procs -> {"idle", "avail", "prune", "scale", "lock", "reconcile", "store", "revoke",
                       "acquire", "policy"}]
    /\ target \in [Procs -> Nat]
    /\ lock \in Procs \cup {"free"}

\* Outside reconciliation current_limit is the number of permits that exist.
\* The code tracks it separately because Semaphore does not expose its total.
PermitsConserved == lock = "free" => avail + held = limit

\* There is always a permit to run with.
LimitInRange == limit \in 1..MaxConc

\* However overlays, scaling and dispatches interleave, no more than
\* max_concurrency handlers run.
HardLimit == held <= MaxConc

\* A dispatch that waits for a permit gets one.
DispatchIsAdmitted == pc["dispatch"] = "acquire" ~> pc["dispatch"] = "policy"

(* ------------ the inductive invariant behind the proofs ---------------- *)

PermitInv ==
    /\ \A p \in Procs : lock = p <=> pc[p] \in {"reconcile", "store", "revoke"}
    /\ limit \in 1..MaxConc
    /\ \A p \in Procs :
         /\ pc[p] = "store" => target[p] \in 1..MaxConc /\ avail + held = target[p]
         /\ pc[p] = "revoke" => avail + held + revoked = limit /\ limit - (revoked + todo) >= 1
         /\ pc[p] = "reconcile" => avail + held = limit
    /\ lock = "free" => avail + held = limit

(* --------- statements of the documentation the code does not meet -------- *)

\* Clearing an overlay restores the base on the next reconciliation.
RestoreNotLost ==
    [][restore /\ ~restore' => ovlLimit' > 0 \/ (\E p \in Procs : Decide(p))]_cvars
=============================================================================
