---------------------------- MODULE Diagnostics ----------------------------
(***************************************************************************)
(* DiagnosticsStore and GenerationDiagnosticsHandle (core/diagnostics.rs):   *)
(* what supervisors, bodies and probes record, on three levels one after the *)
(* other, while snapshots are taken and old generations are evicted.         *)
(*                                                                          *)
(* Every record_* of a handle does the same to an aggregate: it adds to the  *)
(* generation's, then to the service's, then to the lane's.  A record is     *)
(* here one more on each level; the counters of one aggregate are            *)
(* ObservationStats.  A handle outlives the eviction of its generation.      *)
(***************************************************************************)
EXTENDS Integers, Sequences, FiniteSets

CONSTANTS
    Recorded,               \* services, all of one lane
    Writers,                \* tasks that record: supervisors, bodies, probes
    RetainedGenerations,    \* RETAINED_GENERATIONS_PER_SERVICE
    RetainedFailures,       \* RETAINED_PROVIDER_FAILURES
    MaxGenerations, MaxRecords  \* bounds

ASSUME StoreAssumption ==
    /\ IsFiniteSet(Recorded) /\ IsFiniteSet(Writers)
    /\ RetainedGenerations \in Nat \ {0} /\ RetainedFailures \in Nat \ {0}
    /\ MaxGenerations \in Nat /\ MaxRecords \in Nat

VARIABLES
    current,    \* current_generation per service, 0 before the first
    kept,       \* keys of the generations map
    ofGen,      \* records per generation, evicted ones included
    ofService, ofLane,
    probes,     \* records the lane's own probe made
    writing,    \* per writer: [next, key, failure], next an index of Levels; or Idle
    issued,     \* records begun
    failures,   \* provider_failures: the issue numbers
    pushed,     \* failures ever pushed
    snap        \* the snapshot being taken, or the last one

dvars == <<current, kept, ofGen, ofService, ofLane, probes, writing, issued, failures, pushed, snap>>

Keys == Recorded \X (1..MaxGenerations)
Idle == [next |-> 0]
NoSnap == [stage |-> "none"]

DInit ==
    /\ current = [s \in Recorded |-> 0] /\ kept = {}
    /\ ofGen = [k \in Keys |-> 0] /\ ofService = [s \in Recorded |-> 0] /\ ofLane = 0
    /\ probes = 0
    /\ writing = [w \in Writers |-> Idle] /\ issued = 0
    /\ failures = <<>> /\ pushed = 0
    /\ snap = NoSnap

\* retain_recent_generations: the ones with the lowest numbers are removed.
Retained(s, keys) ==
    LET mine == {k \in keys : k[1] = s}
    IN  (keys \ mine) \cup
        {k \in mine : Cardinality({j \in mine : j[2] > k[2]}) < RetainedGenerations}

\* register_generation, by the service's supervisor.
Register(s) ==
    /\ current[s] < MaxGenerations
    /\ current' = [current EXCEPT ![s] = @ + 1]
    /\ kept' = Retained(s, kept \cup {<<s, current[s] + 1>>})
    /\ UNCHANGED <<ofGen, ofService, ofLane, probes, writing, issued, failures, pushed, snap>>

\* A task begins a record_* call with the handle of its generation, which need not
\* be the current one any more.
Begin(w, k, failure) ==
    /\ writing[w] = Idle /\ issued < MaxRecords
    /\ k[2] <= current[k[1]]
    /\ issued' = issued + 1
    /\ writing' = [writing EXCEPT ![w] = [next |-> 1, key |-> k, failure |-> failure]]
    /\ UNCHANGED <<current, kept, ofGen, ofService, ofLane, probes, failures, pushed, snap>>

\* Mutant of Levels: the service before the generation.
LevelsServiceFirst == <<"service", "generation", "lane", "store">>

\* The order in which every record_* of a handle goes through the levels; a provider
\* failure goes to the daemon's store as well (record_provider_failure_diagnostics).
Levels == <<"generation", "service", "lane", "store">>

\* Where a call goes on from a handle's level.
Onward(c) == IF c.next < 3 \/ c.failure THEN [c EXCEPT !.next = @ + 1] ELSE Idle

\* The next level of a record_* call.
Record(w) ==
    /\ writing[w].next \in 1..3
    /\ LET l == Levels[writing[w].next]
           k == writing[w].key
           one(level) == IF l = level THEN 1 ELSE 0
       IN  /\ ofGen' = [ofGen EXCEPT ![k] = @ + one("generation")]
           /\ ofService' = [ofService EXCEPT ![k[1]] = @ + one("service")]
           /\ ofLane' = ofLane + one("lane")
    /\ writing' = [writing EXCEPT ![w] = Onward(@)]
    /\ UNCHANGED <<current, kept, probes, issued, failures, pushed, snap>>

\* The ring of DiagnosticsStore::record_provider_failure.
Push(f) == Append(IF Len(failures) = RetainedFailures THEN Tail(failures) ELSE failures, f)

\* record_provider_failure_diagnostics: the handle first, then the daemon's store.
ToStore(w) ==
    /\ writing[w].next = 4
    /\ failures' = Push(pushed + 1) /\ pushed' = pushed + 1
    /\ writing' = [writing EXCEPT ![w] = Idle]
    /\ UNCHANGED <<current, kept, ofGen, ofService, ofLane, probes, issued, snap>>

\* run_lane_runtime_probe: record_lane_observation.
LaneProbe ==
    /\ issued < MaxRecords
    /\ issued' = issued + 1 /\ probes' = probes + 1 /\ ofLane' = ofLane + 1
    /\ UNCHANGED <<current, kept, ofGen, ofService, writing, failures, pushed, snap>>

(* ------------------------------- snapshots ------------------------------ *)

\* DiagnosticsStore::snapshot reads the services one by one, ...
SnapBegin ==
    /\ snap = NoSnap
    /\ snap' = [stage |-> "services", todo |-> {s \in Recorded : current[s] > 0},
                service |-> [s \in Recorded |-> 0], gen |-> [k \in Keys |-> 0],
                lost |-> {}, lane |-> 0]
    /\ UNCHANGED <<current, kept, ofGen, ofService, ofLane, probes, writing, issued, failures, pushed>>

SnapService(s) ==
    /\ snap.stage = "services" /\ s \in snap.todo
    /\ snap' = [snap EXCEPT !.todo = @ \ {s}, !.service[s] = ofService[s]]
    /\ UNCHANGED <<current, kept, ofGen, ofService, ofLane, probes, writing, issued, failures, pushed>>

\* ... then the generations that are in the map, ...
SnapGenerations ==
    /\ snap.stage = "services" /\ snap.todo = {}
    /\ snap' = [snap EXCEPT !.stage = "generations", !.todo = kept,
                            !.lost = {k \in Keys : k[2] <= current[k[1]]} \ kept]
    /\ UNCHANGED <<current, kept, ofGen, ofService, ofLane, probes, writing, issued, failures, pushed>>

\* (one that is evicted before its turn is not found)
SnapGeneration(k) ==
    /\ snap.stage = "generations" /\ k \in snap.todo
    /\ snap' = IF k \in kept
               THEN [snap EXCEPT !.todo = @ \ {k}, !.gen[k] = ofGen[k]]
               ELSE [snap EXCEPT !.todo = @ \ {k}, !.lost = @ \cup {k}]
    /\ UNCHANGED <<current, kept, ofGen, ofService, ofLane, probes, writing, issued, failures, pushed>>

\* ... then the failures and the lanes.
SnapLane ==
    /\ snap.stage = "generations" /\ snap.todo = {}
    /\ snap' = [snap EXCEPT !.stage = "taken", !.lane = ofLane]
    /\ UNCHANGED <<current, kept, ofGen, ofService, ofLane, probes, writing, issued, failures, pushed>>

DNext ==
    \/ \E s \in Recorded : Register(s) \/ SnapService(s)
    \/ \E w \in Writers : Record(w) \/ ToStore(w) \/ \E k \in Keys, f \in BOOLEAN : Begin(w, k, f)
    \/ \E k \in Keys : SnapGeneration(k)
    \/ LaneProbe \/ SnapBegin \/ SnapGenerations \/ SnapLane

DSpec == DInit /\ [][DNext]_dvars

(* ------------------------------ properties ------------------------------ *)

KeysOf(s) == {k \in Keys : k[1] = s}

\* The records that some generations count, one element each.
Records(count, K) == UNION {{k} \X (1..count[k]) : k \in K}

\* The calls for a service in S that have still to reach a level.
Outstanding(level, S) ==
    {w \in Writers : /\ writing[w].next \in 2..3
                     /\ writing[w].key[1] \in S
                     /\ level >= writing[w].next}

\* Every record reaches every level once, whatever is evicted meanwhile: the three
\* levels differ only by the calls that are under way.  A snapshot is not one instant,
\* but it is causal: what a service's numbers in it count, the numbers of its
\* generations count too, unless one was evicted.  And what is kept is the newest: of
\* a crash loop the last generations, of the provider failures the last ones in order.
StoreConsistent ==
    /\ \A s \in Recorded :
         /\ Cardinality(Records(ofGen, KeysOf(s))) = ofService[s] + Cardinality(Outstanding(2, {s}))
         /\ snap.stage = "taken" /\ snap.lost \cap KeysOf(s) = {} =>
              snap.service[s] <= Cardinality(Records(snap.gen, KeysOf(s)))
         /\ {k[2] : k \in kept \cap KeysOf(s)} =
              {n \in 1..current[s] : n > current[s] - RetainedGenerations}
    /\ Cardinality(Records(ofGen, Keys)) + probes = ofLane + Cardinality(Outstanding(3, Recorded))
    /\ Len(failures) <= RetainedFailures
    /\ \A i \in DOMAIN failures : failures[i] = pushed - Len(failures) + i
=============================================================================
