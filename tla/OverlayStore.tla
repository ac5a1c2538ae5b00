---------------------------- MODULE OverlayStore -----------------------------
(***************************************************************************)
(* TriggerPolicyOverlayStore across the generations of one trigger service: *)
(* the record each TriggerRunner registers, its removal when the event loop  *)
(* ends, and the requests of handlers, which may outlive their generation    *)
(* (a handler the drain gave up on is a task of its own and keeps its        *)
(* TriggerContext).  A call first looks the record up and clones the Arc;    *)
(* the record's state is locked afterwards.                                  *)
(*                                                                          *)
(* What an overlay says, and the concurrency it asks for, are in             *)
(* PolicyBuilders and TriggerConcurrency.                                    *)
(***************************************************************************)
EXTENDS Integers, FiniteSets

CONSTANTS
    MaxGenerations,     \* bound: generations of the trigger
    MaxRequests         \* bound: overlay requests and clears

ASSUME OverlayAssumption == {MaxGenerations, MaxRequests} \subseteq Nat

VARIABLES
    generation,     \* the newest generation; earlier ones are over
    runner,         \* the newest one: "none", "made", "looping", "over"
    registered,     \* the generation of the record in the store, 0 without one
    cell,           \* per record: the overlay in it
    asking,         \* per generation: the call one of its handlers is in
    requests,
    ttlPassed,      \* overlays whose ttl has passed
    deciding,       \* effective_policy: "idle", "pruned", or "base" (no record)
    startedStale,   \* the overlays whose ttl had passed when the dispatch began
    used            \* the overlay of the last dispatch and the generation of that dispatch

yvars == <<generation, runner, registered, cell, asking, requests, ttlPassed, deciding,
           startedStale, used>>

Generation == 1..MaxGenerations
NoOne == [by |-> 0, id |-> 0]
NoAsk == [op |-> "none", record |-> 0, id |-> 0]

YInit ==
    /\ generation = 0 /\ runner = "none" /\ registered = 0
    /\ cell = [g \in Generation |-> NoOne] /\ asking = [g \in Generation |-> NoAsk]
    /\ requests = 0 /\ ttlPassed = {} /\ deciding = "idle" /\ startedStale = {}
    /\ used = [overlay |-> NoOne, dispatch |-> 0, stale |-> FALSE]

\* TriggerRunner::new: register_trigger replaces whatever record there is.
Make ==
    /\ runner \in {"none", "over"} /\ generation < MaxGenerations
    /\ generation' = generation + 1
    /\ runner' = "made"
    /\ registered' = generation + 1
    /\ UNCHANGED <<cell, asking, requests, ttlPassed, deciding, startedStale, used>>

\* The generation ends before run_with_host: nobody removes the record.
SetupEnds ==
    /\ runner = "made"
    /\ runner' = "over"
    /\ UNCHANGED <<generation, registered, cell, asking, requests, ttlPassed, deciding, startedStale, used>>

EnterLoop ==
    /\ runner = "made"
    /\ runner' = "looping"
    /\ UNCHANGED <<generation, registered, cell, asking, requests, ttlPassed, deciding, startedStale, used>>

\* OverlayGenerationGuard: remove_trigger_generation.
LoopEnds ==
    /\ runner = "looping"
    /\ runner' = "over" /\ deciding' = "idle"
    /\ registered' = IF registered = generation THEN 0 ELSE registered
    /\ cell' = IF registered = generation THEN [cell EXCEPT ![generation] = NoOne] ELSE cell
    /\ UNCHANGED <<generation, asking, requests, ttlPassed, startedStale, used>>

\* Mutant of RecordFor: whatever record the service has.
RecordForAny(g) == registered

\* record_for_generation: the record to use, or 0.
RecordFor(g) == IF registered = g THEN g ELSE 0

\* request_overlay or clear_overlay by a handler of generation g; without a
\* record the call fails.
Ask(g, op) ==
    /\ g <= generation /\ asking[g] = NoAsk /\ requests < MaxRequests
    /\ RecordFor(g) # 0
    /\ asking' = [asking EXCEPT ![g] = [op |-> op, record |-> RecordFor(g), id |-> requests + 1]]
    /\ requests' = requests + 1
    /\ UNCHANGED <<generation, runner, registered, cell, ttlPassed, deciding, startedStale, used>>

Grant(g) ==
    /\ asking[g].op # "none"
    /\ cell' = [cell EXCEPT ![asking[g].record] =
                  IF asking[g].op = "request" THEN [by |-> g, id |-> asking[g].id] ELSE NoOne]
    /\ asking' = [asking EXCEPT ![g] = NoAsk]
    /\ UNCHANGED <<generation, runner, registered, requests, ttlPassed, deciding, startedStale, used>>

TtlPasses(g) ==
    /\ cell[g] # NoOne /\ cell[g].id \notin ttlPassed
    /\ ttlPassed' = ttlPassed \cup {cell[g].id}
    /\ UNCHANGED <<generation, runner, registered, cell, asking, requests, deciding, startedStale, used>>

\* effective_policy: look up, prune_expired_overlay.
BeginEffective ==
    /\ runner = "looping" /\ deciding = "idle"
    /\ deciding' = IF RecordFor(generation) = 0 THEN "base" ELSE "pruned"
    /\ startedStale' = ttlPassed
    /\ cell' = IF RecordFor(generation) # 0 /\ cell[RecordFor(generation)].id \in ttlPassed
                 THEN [cell EXCEPT ![RecordFor(generation)] = NoOne] ELSE cell
    /\ UNCHANGED <<generation, runner, registered, asking, requests, ttlPassed, used>>

\* ... and read what is left under the lock.
EndEffective ==
    /\ deciding # "idle"
    /\ LET o == IF deciding = "base" THEN NoOne ELSE cell[generation]
       IN  used' = [overlay |-> o, dispatch |-> generation, stale |-> o.id \in startedStale]
    /\ deciding' = "idle" /\ startedStale' = {}
    /\ UNCHANGED <<generation, runner, registered, cell, asking, requests, ttlPassed>>

YNext ==
    \/ Make \/ SetupEnds \/ EnterLoop \/ LoopEnds \/ BeginEffective \/ EndEffective
    \/ \E g \in Generation :
         \/ \E op \in {"request", "clear"} : Ask(g, op)
         \/ Grant(g) \/ TtlPasses(g)

YSpec == YInit /\ [][YNext]_yvars

(* ------------------------------ properties ------------------------------ *)

\* The overlay a dispatch runs under was asked for in its own generation, so a
\* handler that outlived its generation never shapes the dispatches of a later one;
\* and its ttl had not passed when the dispatch decided on its policy.
OverlayIsOwnAndFresh ==
    /\ used.overlay # NoOne => used.overlay.by = used.dispatch
    /\ ~used.stale
=============================================================================
