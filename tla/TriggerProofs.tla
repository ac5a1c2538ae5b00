---------------------------- MODULE TriggerProofs ----------------------------
(***************************************************************************)
(* What holds of the path from an event to a handler for every number of     *)
(* events, permits, retries, hosts, publishers and generations: the event    *)
(* loop's accounting and its clean end (TriggerRunner), the overlays a       *)
(* dispatch runs under (OverlayStore), that the hosts dispatch what was      *)
(* fired once (TriggerHosts), and the permits of a policy                    *)
(* (TriggerConcurrency).                                                     *)
(***************************************************************************)
EXTENDS TriggerHosts, TriggerRunner, OverlayStore, TriggerConcurrency, FiniteSetTheorems, TLAPS

(* ------------------------------ the overlays ----------------------------- *)

YTypeOK ==
    /\ generation \in 0..MaxGenerations /\ runner \in {"none", "made", "looping", "over"}
    /\ registered \in 0..MaxGenerations
    /\ cell \in [Generation -> [by : Nat, id : Nat]]
    /\ asking \in [Generation -> [op : {"none", "request", "clear"}, record : Nat, id : Nat]]
    /\ requests \in Nat /\ ttlPassed \subseteq 1..requests /\ startedStale \subseteq ttlPassed
    /\ deciding \in {"idle", "pruned", "base"}
    /\ runner = "none" <=> generation = 0

\* A record holds overlays of its own generation only, and a call that is under way
\* has the record of its generation.
OwnRecords ==
    \A g \in Generation :
        /\ cell[g] # NoOne => cell[g].by = g
        /\ asking[g].op # "none" => asking[g].record = g

\* A request that is not granted yet has an id that nothing else has, so its ttl
\* cannot have passed.
PendingIsNew ==
    \A g \in Generation :
        /\ cell[g].id <= requests /\ (cell[g] # NoOne => cell[g].id # 0)
        /\ asking[g].op # "none" =>
             /\ asking[g].id \in 1..requests /\ asking[g].id \notin ttlPassed
             /\ \A k \in Generation :
                  /\ cell[k].id # asking[g].id
                  /\ k # g /\ asking[k].op # "none" => asking[k].id # asking[g].id

\* Between prune and read, what the record holds is fresh for this dispatch.
PrunedIsFresh ==
    /\ deciding # "idle" => runner = "looping"
    /\ deciding = "pruned" => cell[generation].id \notin startedStale

YInv == YTypeOK /\ OwnRecords /\ PendingIsNew /\ PrunedIsFresh /\ OverlayIsOwnAndFresh

\* No overlay exists before the first generation.
LEMMA YInitInv == YInit => YInv
BY OverlayAssumption
   DEF YInit, YInv, YTypeOK, OwnRecords, PendingIsNew, PrunedIsFresh, OverlayIsOwnAndFresh, NoOne, NoAsk

\* Requests, pruning, dispatches and restarts of the runner keep the invariant.
LEMMA YStep == YInv /\ [YNext]_yvars => YInv'
<1> SUFFICES ASSUME YInv, [YNext]_yvars PROVE YInv'
  BY Zenon
<1> USE OverlayAssumption
    DEF YInv, YTypeOK, OwnRecords, PendingIsNew, PrunedIsFresh, OverlayIsOwnAndFresh, Generation,
        NoOne, NoAsk
<1>1. CASE UNCHANGED yvars BY <1>1 DEF yvars
<1>2. CASE Make BY <1>2 DEF Make
<1>3. CASE SetupEnds BY <1>3, Zenon DEF SetupEnds
<1>4. CASE EnterLoop BY <1>4, Zenon DEF EnterLoop
<1>5. CASE LoopEnds BY <1>5 DEF LoopEnds
<1>6. CASE BeginEffective BY <1>6, SMTT(60) DEF BeginEffective, RecordFor
<1>7. CASE EndEffective
  <2> DEFINE o == IF deciding = "base" THEN NoOne ELSE cell[generation]
  <2>1. o.id \notin startedStale /\ (o # NoOne => o.by = generation)
    BY <1>7 DEF EndEffective
  <2>2. used' = [overlay |-> o, dispatch |-> generation, stale |-> o.id \in startedStale]
    BY <1>7, Zenon DEF EndEffective
  <2>3. used'.overlay = o /\ used'.dispatch = generation /\ (used'.stale <=> o.id \in startedStale)
    BY <2>2, Zenon
  <2> HIDE DEF o
  <2> QED BY <1>7, <2>1, <2>3 DEF EndEffective
<1>8. ASSUME NEW g \in Generation, NEW op \in {"request", "clear"}, Ask(g, op) PROVE YInv'
  BY <1>8, SMTT(60) DEF Ask, RecordFor
<1>9. ASSUME NEW g \in Generation, Grant(g) PROVE YInv' BY <1>9, SMTT(60) DEF Grant
<1>10. ASSUME NEW g \in Generation, TtlPasses(g) PROVE YInv'
  <2>1. cell[g].id \in 1..requests
    BY <1>10 DEF TtlPasses
  <2>2. YTypeOK' BY <1>10, <2>1, Zenon DEF TtlPasses
  <2>3. PendingIsNew' BY <1>10, <2>1 DEF TtlPasses
  <2>4. OwnRecords' /\ PrunedIsFresh' /\ OverlayIsOwnAndFresh' BY <1>10, Zenon DEF TtlPasses
  <2> QED BY <2>2, <2>3, <2>4, Zenon
<1> HIDE DEF YInv
<1> QED BY <1>1, <1>2, <1>3, <1>4, <1>5, <1>6, <1>7, <1>8, <1>9, <1>10, Zenon DEF YNext

\* No dispatch runs under an overlay of another generation, or one whose ttl had
\* passed when it began (effective_policy, remove_trigger_generation).
THEOREM OverlaysAreOwnAndFresh == YSpec => []OverlayIsOwnAndFresh
<1>1. YInv => OverlayIsOwnAndFresh
  BY Zenon DEF YInv
<1> QED BY <1>1, YInitInv, YStep, PTL DEF YSpec

(* ----------------------------- the event loop ---------------------------- *)

RTypeOK ==
    /\ loop \in {"poll", "permit", "reloadWait", "stopping", "stopDrain", "draining", "done"}
    /\ result \in {"none", "ok", "err"} /\ seq \in 0..MaxEvents
    /\ task \in [Dispatches -> {"idle", "running", "backoff", "ok", "failed", "aborted"}]
    /\ attempts \in [Dispatches -> Nat] /\ inFlight \subseteq Dispatches /\ stop \in BOOLEAN
    /\ drain \in [completed : Nat, failed : Nat, started : Nat]
    /\ recorded \in [completed : Nat, failed : Nat, timedOut : BOOLEAN, residual : Int]
    /\ facts \in [dispatched : Nat, completed : Nat, failed : Nat, retries : Nat]
    /\ loop = "permit" => seq \in Dispatches

\* Until the loop returns: the tasks it has not observed are those in flight, the
\* others ended well, and no drain has been recorded.
LoopHolds ==
    loop # "done" =>
        /\ result = "none" /\ recorded = NoOutcome
        /\ \A d \in Dispatches :
             /\ d \notin inFlight => task[d] \in {"idle", "ok"}
             /\ d > seq \/ (loop = "permit" /\ d = seq) => d \notin inFlight /\ task[d] = "idle"
        /\ facts.dispatched = facts.completed + facts.failed + Cardinality(inFlight)

\* A drain counts down from what it started with.
DrainCounts ==
    loop = "draining" => /\ stop
                         /\ drain.completed + drain.failed + Cardinality(inFlight) = drain.started

\* After the loop nothing runs on: a task not yet done was aborted.
NothingRunsOn == loop = "done" => Busy = {}

RetriesCounted == IsFiniteSet(Backoffs) /\ facts.retries = Cardinality(Backoffs)

DrainRecorded ==
    recorded # NoOutcome /\ ~recorded.timedOut =>
        recorded.completed + recorded.failed + recorded.residual = drain.started

RInv ==
    /\ RTypeOK /\ LoopHolds /\ DrainCounts /\ NothingRunsOn /\ RetriesCounted /\ DrainRecorded
    /\ CleanEndIsComplete

\* Sets of dispatches are finite, and grow and shrink by one.
LEMMA FlightSize ==
    ASSUME NEW S \in SUBSET Dispatches
    PROVE  /\ IsFiniteSet(S) /\ Cardinality(S) \in Nat
           /\ Cardinality(S) = 0 <=> S = {}
           /\ \A d \in Dispatches \ S : Cardinality(S \cup {d}) = Cardinality(S) + 1
           /\ \A d \in S : Cardinality(S \ {d}) = Cardinality(S) - 1
<1>1. IsFiniteSet(Dispatches)
  BY RunnerAssumption, FS_Interval DEF Dispatches
<1>2. IsFiniteSet(S)
  BY <1>1, FS_Subset, Zenon
<1> QED BY <1>2, FS_CardinalityType, FS_EmptySet, FS_AddElement, FS_RemoveElement, Zenon

\* One more failed attempt of d is one more backoff.
LEMMA BackoffAdded ==
    ASSUME RTypeOK, RetriesCounted, NEW d \in Dispatches, attempts' = [attempts EXCEPT ![d] = @ + 1]
    PROVE  IsFiniteSet(Backoffs') /\ Cardinality(Backoffs') = Cardinality(Backoffs) + 1
<1> DEFINE b == <<d, attempts[d] + 1>>
<1>1. ASSUME NEW x PROVE x \in Backoffs <=> \E k \in Dispatches : \E n \in 1..attempts[k] : x = <<k, n>>
  BY DEF Backoffs
<1>2. ASSUME NEW x PROVE x \in Backoffs' <=> \E k \in Dispatches : \E n \in 1..attempts'[k] : x = <<k, n>>
  BY DEF Backoffs
<1>3. attempts'[d] = attempts[d] + 1 /\ \A k \in Dispatches : k # d => attempts'[k] = attempts[k]
  BY Zenon DEF RTypeOK
<1>4. b \notin Backoffs
  BY <1>1 DEF RTypeOK
<1>5. Backoffs' = Backoffs \cup {b}
  <2>1. ASSUME NEW x \in Backoffs' PROVE x \in Backoffs \cup {b}
    <3>0. PICK k \in Dispatches : \E n \in 1..attempts'[k] : x = <<k, n>>
      BY <1>2, <2>1, Zenon
    <3>1. PICK n \in 1..attempts'[k] : x = <<k, n>>
      BY <3>0, Zenon
    <3>2. (k = d /\ n = attempts[d] + 1) \/ n \in 1..attempts[k]
      BY <1>3 DEF RTypeOK
    <3> QED BY <1>1, <3>1, <3>2, Zenon
  <2>2. ASSUME NEW x \in Backoffs PROVE x \in Backoffs'
    <3>0. PICK k \in Dispatches : \E n \in 1..attempts[k] : x = <<k, n>>
      BY <1>1, <2>2, Zenon
    <3>1. PICK n \in 1..attempts[k] : x = <<k, n>>
      BY <3>0, Zenon
    <3>2. n \in 1..attempts'[k]
      BY <1>3 DEF RTypeOK
    <3> QED BY <1>2, <3>1, <3>2, Zenon
  <2>3. b \in Backoffs'
    <3>1. attempts[d] + 1 \in 1..attempts'[d]
      BY <1>3 DEF RTypeOK
    <3> QED BY <1>2, <3>1, Zenon
  <2> QED BY <2>1, <2>2, <2>3, Zenon
<1> QED BY <1>4, <1>5, FS_AddElement, Zenon DEF RetriesCounted

\* However run_with_host returns, the tasks it leaves are done or aborted; none is
\* aborted if none of those that it leaves holds a permit.
LEMMA ReturnLeaves ==
    ASSUME RTypeOK, LoopHolds, loop # "done", NEW res, NEW rest \in SUBSET inFlight, Busy \subseteq rest,
           Return(res, rest)
    PROVE  /\ task' \in [Dispatches -> {"idle", "running", "backoff", "ok", "failed", "aborted"}]
           /\ \A d \in Dispatches : task'[d] \notin {"running", "backoff"}
           /\ rest = {} => task' = task
           /\ loop' = "done" /\ result' = res /\ inFlight' = {}
BY Zenon DEF RTypeOK, Return, Busy

\* The event loop starts with nothing in flight and nothing counted.
LEMMA RInitInv == RInit => RInv
<1> SUFFICES ASSUME RInit PROVE RInv
  BY Zenon
<1>1. Backoffs = {}
  BY DEF RInit, Backoffs
<1>2. RTypeOK
  <2>1. recorded \in [completed : Nat, failed : Nat, timedOut : BOOLEAN, residual : Int]
    BY DEF RInit, NoOutcome
  <2>2. facts \in [dispatched : Nat, completed : Nat, failed : Nat, retries : Nat]
    BY Zenon DEF RInit, RegisteredFacts
  <2>3. drain \in [completed : Nat, failed : Nat, started : Nat]
    BY Zenon DEF RInit
  <2>4. seq \in 0..MaxEvents
    BY RunnerAssumption DEF RInit
  <2> QED BY <2>1, <2>2, <2>3, <2>4, Zenon DEF RInit, RTypeOK
<1>3. RetriesCounted
  BY <1>1, FS_EmptySet, Zenon DEF RInit, RetriesCounted, RegisteredFacts
<1>4. LoopHolds
  BY <1>2, FS_EmptySet DEF RInit, LoopHolds, RegisteredFacts
<1> QED
  BY <1>2, <1>3, <1>4, Zenon DEF RInit, RInv, DrainCounts, NothingRunsOn, DrainRecorded, CleanEndIsComplete

\* Retries are counted by the attempts of the dispatches alone.
LEMMA SameBackoffs ==
    ASSUME RetriesCounted, attempts' = attempts, facts'.retries = facts.retries PROVE RetriesCounted'
BY DEF RetriesCounted, Backoffs

\* The loop returns without an outcome of its own: the monitor died, or the stop
\* signal cut the generation short.
LEMMA ReturnStep ==
    ASSUME RInv, loop # "done", NEW res \in {"ok", "err"}, Return(res, inFlight),
           UNCHANGED <<seq, attempts, stop, drain, facts>>,
           \/ UNCHANGED recorded
           \/ recorded' \in [completed : Nat, failed : Nat, timedOut : {TRUE}, residual : Int],
           res = "ok" /\ inFlight # {} => stop
    PROVE  RInv'
<1>1. Busy \subseteq inFlight
  BY Zenon DEF RInv, LoopHolds, Busy
<1>2. /\ task' \in [Dispatches -> {"idle", "running", "backoff", "ok", "failed", "aborted"}]
      /\ \A d \in Dispatches : task'[d] \notin {"running", "backoff"}
      /\ inFlight = {} => task' = task
      /\ loop' = "done" /\ result' = res /\ inFlight' = {}
  BY <1>1, ReturnLeaves, Zenon DEF RInv
<1>3. RetriesCounted'
  BY SameBackoffs, Zenon DEF RInv
<1>4. RTypeOK' /\ LoopHolds' /\ DrainCounts' /\ NothingRunsOn'
  BY <1>2, Zenon DEF RInv, RTypeOK, LoopHolds, DrainCounts, NothingRunsOn, Busy
<1>5. recorded' = NoOutcome \/ recorded'.timedOut
  BY Zenon DEF RInv, LoopHolds
<1>6. DrainRecorded'
  BY <1>5, Zenon DEF DrainRecorded
<1>7. CleanEndIsComplete'
  BY <1>2, <1>5, Zenon DEF RInv, LoopHolds, CleanEndIsComplete
<1> QED BY <1>3, <1>4, <1>6, <1>7, Zenon DEF RInv

\* A dispatch task moves; the loop has yet to observe it.
LEMMA TaskMoves ==
    ASSUME RInv, NEW d \in Dispatches, task[d] \in {"running", "backoff"},
           NEW t \in {"running", "backoff", "ok", "failed"}, SetTask(d, t),
           attempts' \in [Dispatches -> Nat],
           facts' \in [dispatched : Nat, completed : Nat, failed : Nat, retries : Nat],
           \A c \in {"dispatched", "completed", "failed"} : facts'[c] = facts[c],
           RetriesCounted'
    PROVE  RInv'
<1>1. loop # "done" /\ d \in inFlight
  BY Zenon DEF RInv, NothingRunsOn, LoopHolds, Busy
<1>2. /\ facts'.dispatched = facts.dispatched /\ facts'.completed = facts.completed
      /\ facts'.failed = facts.failed
  BY Zenon
<1>3. RTypeOK'
  BY Zenon DEF RInv, RTypeOK, SetTask
<1>4. LoopHolds'
  BY <1>1, <1>2, Zenon DEF RInv, RTypeOK, LoopHolds, SetTask
<1>5. DrainCounts' /\ NothingRunsOn' /\ DrainRecorded' /\ CleanEndIsComplete'
  BY <1>1, Zenon DEF RInv, LoopHolds, DrainCounts, NothingRunsOn, DrainRecorded, CleanEndIsComplete, SetTask
<1> QED BY <1>3, <1>4, <1>5, Zenon DEF RInv

\* Counting an outcome changes the two counters of the drain and nothing else.
LEMMA DrainCountTyped ==
    ASSUME NEW r \in [completed : Nat, failed : Nat, started : Nat], NEW a \in Nat, NEW b \in Nat,
           NEW c, c = [r EXCEPT !.completed = @ + a, !.failed = @ + b]
    PROVE  /\ c \in [completed : Nat, failed : Nat, started : Nat]
           /\ c.completed = r.completed + a /\ c.failed = r.failed + b /\ c.started = r.started
<1> DEFINE half == [r EXCEPT !.completed = @ + a]
<1>1. half \in [completed : Nat, failed : Nat, started : Nat] /\ half.failed = r.failed
  OBVIOUS
<1>2. c = [half EXCEPT !.failed = @ + b]
  BY Zenon
<1>3. c.completed = r.completed + a /\ c.failed = r.failed + b /\ c.started = r.started
  BY Zenon
<1> HIDE DEF half
<1>4. c \in [completed : Nat, failed : Nat, started : Nat]
  BY <1>1, <1>2
<1> QED BY <1>3, <1>4, Zenon

\* Every turn of the event loop and every end of a dispatch keeps the invariant.
LEMMA RStep == RInv /\ [RNext]_rvars => RInv'
<1> SUFFICES ASSUME RInv, [RNext]_rvars PROVE RInv'
  BY Zenon
<1> USE RunnerAssumption
<1>0. /\ Cardinality(inFlight) \in Nat /\ (Cardinality(inFlight) = 0 <=> inFlight = {})
      /\ \A d \in Dispatches \ inFlight : Cardinality(inFlight \cup {d}) = Cardinality(inFlight) + 1
      /\ \A d \in inFlight : Cardinality(inFlight \ {d}) = Cardinality(inFlight) - 1
  BY FlightSize, Zenon DEF RInv, RTypeOK
<1>1. CASE UNCHANGED rvars
  BY <1>1 DEF rvars, RInv, RTypeOK, LoopHolds, DrainCounts, NothingRunsOn, RetriesCounted, DrainRecorded,
              CleanEndIsComplete, Busy, Backoffs
<1>2. ASSUME NEW m \in HostMoves, HostEmits(m) PROVE RInv'
  <2>1. RetriesCounted'
    BY <1>2, SameBackoffs, Zenon DEF RInv, HostEmits
  <2>2. RTypeOK' /\ LoopHolds'
    BY <1>2, SMTT(60) DEF HostEmits, RInv, RTypeOK, LoopHolds, Dispatches
  <2> QED
    BY <1>2, <2>1, <2>2, Zenon DEF HostEmits, RInv, LoopHolds, DrainCounts, NothingRunsOn, DrainRecorded,
                            CleanEndIsComplete
<1>3. CASE Dispatch
  <2>1. RetriesCounted'
    BY <1>3, SameBackoffs, Zenon DEF RInv, RTypeOK, Dispatch, Recorded
  <2>2. seq \in Dispatches \ inFlight
    BY <1>3, Zenon DEF Dispatch, RInv, RTypeOK, LoopHolds
  <2>3. RTypeOK'
    <3>1. facts' \in [dispatched : Nat, completed : Nat, failed : Nat, retries : Nat]
      <4>1. facts \in [dispatched : Nat, completed : Nat, failed : Nat, retries : Nat]
        BY Zenon DEF RInv, RTypeOK
      <4>2. facts' = [facts EXCEPT !.dispatched = @ + 1]
        BY <1>3, Zenon DEF Dispatch, Recorded
      <4> QED BY <4>1, <4>2
    <3>2. task' \in [Dispatches -> {"idle", "running", "backoff", "ok", "failed", "aborted"}]
      BY <1>3, <2>2, Zenon DEF Dispatch, RInv, RTypeOK
    <3>3. loop' \in {"poll", "reloadWait"} /\ inFlight' \subseteq Dispatches
      BY <1>3, <2>2, Zenon DEF Dispatch, RInv, RTypeOK
    <3> QED BY <1>3, <3>1, <3>2, <3>3, Zenon DEF Dispatch, RInv, RTypeOK
  <2>4. LoopHolds'
    <3>1. Cardinality(inFlight') = Cardinality(inFlight) + 1
      BY <1>0, <1>3, <2>2, Zenon DEF Dispatch
    <3>2. /\ facts'.dispatched = facts.dispatched + 1 /\ facts'.completed = facts.completed
          /\ facts'.failed = facts.failed
      BY <1>3, Zenon DEF Dispatch, Recorded, RInv, RTypeOK
    <3>3. \A d \in Dispatches :
            /\ d \notin inFlight' => task'[d] \in {"idle", "ok"}
            /\ d > seq => d \notin inFlight' /\ task'[d] = "idle"
      BY <1>3, <2>2, SMTT(60) DEF Dispatch, RInv, RTypeOK, LoopHolds, Dispatches
    <3>4. loop' # "permit" /\ UNCHANGED <<result, recorded, seq>> /\ loop # "done"
      BY <1>3, Zenon DEF Dispatch
    <3> QED BY <1>0, <3>1, <3>2, <3>3, <3>4 DEF RInv, RTypeOK, LoopHolds
  <2> QED
    BY <1>3, <2>1, <2>3, <2>4, Zenon
       DEF Dispatch, RInv, LoopHolds, DrainCounts, NothingRunsOn, DrainRecorded, CleanEndIsComplete
<1>4. ASSUME NEW d \in Dispatches, Observe(d) PROVE RInv'
  <2> DEFINE rest == inFlight \ {d}
             ok == task[d] = "ok"
             count == [drain EXCEPT !.completed = @ + (IF ok THEN 1 ELSE 0),
                                    !.failed = @ + (IF ok THEN 0 ELSE 1)]
  <2>1. loop # "done" /\ d \in inFlight /\ task[d] \in {"ok", "failed"}
        /\ UNCHANGED <<move, seq, attempts, stop>>
    BY <1>4, Zenon DEF Observe, Finished
  <2>2. facts' = Recorded(IF ok THEN "completed" ELSE "failed")
    BY <1>4, Zenon DEF Observe
  <2>3. drain' = IF loop = "draining" THEN count ELSE drain
    BY <1>4, Zenon DEF Observe
  <2>4. recorded' = IF loop = "draining" /\ (~ok \/ rest = {}) THEN DrainOutcome(count, rest) ELSE recorded
    BY <1>4, Zenon DEF Observe
  <2>5. \/ ~ok /\ Return("err", rest)
        \/ ok /\ loop \in {"draining", "stopDrain"} /\ rest = {} /\ Return("ok", rest)
        \/ ok /\ (loop \in {"poll", "reloadWait"} \/ rest # {}) /\ inFlight' = rest
           /\ UNCHANGED <<loop, result, task>>
    BY <1>4, Zenon DEF Observe
  <2>6. /\ rest \in SUBSET inFlight /\ Cardinality(rest) = Cardinality(inFlight) - 1
        /\ Cardinality(rest) \in Nat /\ Busy \subseteq rest
    BY <1>0, <2>1, FlightSize, Zenon DEF RInv, RTypeOK, LoopHolds, Busy
  <2>7. /\ count \in [completed : Nat, failed : Nat, started : Nat]
        /\ count.completed + count.failed = drain.completed + drain.failed + 1
        /\ count.started = drain.started
    <3>1. drain \in [completed : Nat, failed : Nat, started : Nat]
      BY Zenon DEF RInv, RTypeOK
    <3>2. CASE ok
      <4>1. count = [drain EXCEPT !.completed = @ + 1, !.failed = @ + 0]
        BY <3>2, Zenon
      <4> HIDE DEF count
      <4>2. /\ count \in [completed : Nat, failed : Nat, started : Nat]
            /\ count.completed = drain.completed + 1 /\ count.failed = drain.failed + 0
            /\ count.started = drain.started
        BY <3>1, <4>1, DrainCountTyped, Zenon
      <4> QED BY <3>1, <4>2
    <3>3. CASE ~ok
      <4>1. count = [drain EXCEPT !.completed = @ + 0, !.failed = @ + 1]
        BY <3>3, Zenon
      <4> HIDE DEF count
      <4>2. /\ count \in [completed : Nat, failed : Nat, started : Nat]
            /\ count.completed = drain.completed + 0 /\ count.failed = drain.failed + 1
            /\ count.started = drain.started
        BY <3>1, <4>1, DrainCountTyped, Zenon
      <4> QED BY <3>1, <4>2
    <3> QED BY <3>2, <3>3, Zenon
  <2>8. /\ facts' \in [dispatched : Nat, completed : Nat, failed : Nat, retries : Nat]
        /\ facts'.completed + facts'.failed = facts.completed + facts.failed + 1
        /\ facts'.dispatched = facts.dispatched /\ facts'.retries = facts.retries
    BY <2>2 DEF RInv, RTypeOK, Recorded
  <2>9. RetriesCounted'
    BY <2>1, <2>8, SameBackoffs, Zenon DEF RInv
  <2> HIDE DEF rest, ok, count
  <2>10. LET o == DrainOutcome(count, rest) IN
         /\ o \in [completed : Nat, failed : Nat, timedOut : BOOLEAN, residual : Int]
         /\ loop = "draining" => o.completed + o.failed + o.residual = drain.started
    <3> DEFINE o == DrainOutcome(count, rest)
    <3>1. /\ o.completed = count.completed /\ o.failed = count.failed /\ o.residual = Cardinality(rest)
          /\ o \in [completed : Nat, failed : Nat, timedOut : BOOLEAN, residual : Int]
      BY <2>6, <2>7 DEF DrainOutcome
    <3>2. loop = "draining" => drain.completed + drain.failed + Cardinality(inFlight) = drain.started
      BY Zenon DEF RInv, DrainCounts
    <3>3. drain \in [completed : Nat, failed : Nat, started : Nat]
      BY Zenon DEF RInv, RTypeOK
    <3> HIDE DEF o
    <3>4. loop = "draining" => o.completed + o.failed + o.residual = drain.started
      BY <1>0, <2>6, <2>7, <3>1, <3>2, <3>3
    <3> QED BY <3>1, <3>4, Zenon DEF o
  <2>11. recorded' \in [completed : Nat, failed : Nat, timedOut : BOOLEAN, residual : Int]
         /\ drain' \in [completed : Nat, failed : Nat, started : Nat] /\ DrainRecorded'
    BY <2>1, <2>3, <2>4, <2>7, <2>10, Zenon DEF RInv, RTypeOK, LoopHolds, DrainRecorded
  <2>12. CASE ~ok /\ Return("err", rest)
    BY <2>1, <2>6, <2>8, <2>9, <2>11, <2>12, ReturnLeaves
       DEF RInv, RTypeOK, LoopHolds, DrainCounts, NothingRunsOn, Busy, CleanEndIsComplete
  <2>13. CASE ok /\ rest = {} /\ Return("ok", rest)
    <3>1. \A k \in Dispatches : task[k] \in {"idle", "ok"}
      BY <2>1, <2>13, Zenon DEF RInv, LoopHolds, rest, ok
    <3> QED
      BY <3>1, <2>1, <2>6, <2>8, <2>9, <2>11, <2>13, ReturnLeaves
         DEF RInv, RTypeOK, LoopHolds, DrainCounts, NothingRunsOn, Busy, CleanEndIsComplete
  <2>14. CASE ok /\ (loop \in {"poll", "reloadWait"} \/ rest # {}) /\ inFlight' = rest
              /\ UNCHANGED <<loop, result, task>>
    <3>1. recorded' = recorded
      BY <2>4, <2>14, Zenon
    <3>2. LoopHolds'
      <4>1. \A k \in Dispatches :
              /\ k \notin inFlight' => task'[k] \in {"idle", "ok"}
              /\ k > seq \/ (loop = "permit" /\ k = seq) => k \notin inFlight' /\ task'[k] = "idle"
        BY <2>1, <2>14, Zenon DEF RInv, LoopHolds, rest, ok
      <4>2. facts'.dispatched = facts'.completed + facts'.failed + Cardinality(inFlight')
        BY <1>0, <2>1, <2>6, <2>8, <2>14 DEF RInv, RTypeOK, LoopHolds
      <4> QED BY <2>1, <2>14, <3>1, <4>1, <4>2, Zenon DEF RInv, LoopHolds
    <3>3. DrainCounts'
      BY <1>0, <2>1, <2>3, <2>6, <2>7, <2>14 DEF RInv, RTypeOK, DrainCounts
    <3> QED
      BY <2>1, <2>6, <2>8, <2>9, <2>11, <2>14, <3>1, <3>2, <3>3, Zenon
         DEF RInv, RTypeOK, LoopHolds, NothingRunsOn, CleanEndIsComplete
  <2> QED BY <2>5, <2>12, <2>13, <2>14, Zenon
<1>5. CASE BeginDrain
  <2>1. CASE inFlight = {} /\ Return("ok", {})
    BY <1>5, <2>1, ReturnStep, Zenon DEF BeginDrain
  <2>2. CASE inFlight # {}
    <3>1. RetriesCounted'
      BY <1>5, SameBackoffs, Zenon DEF RInv, BeginDrain
    <3>2. drain' = [completed |-> 0, failed |-> 0, started |-> Cardinality(inFlight)]
      BY <1>5, <2>2, Zenon DEF BeginDrain
    <3> QED
      BY <1>0, <1>5, <2>2, <3>1, <3>2
         DEF BeginDrain, RInv, RTypeOK, LoopHolds, DrainCounts, NothingRunsOn, DrainRecorded,
             CleanEndIsComplete
  <2> QED BY <1>5, <2>1, <2>2, Zenon DEF BeginDrain
<1>6. CASE DrainTimeout
  <2>1. recorded' \in [completed : Nat, failed : Nat, timedOut : {TRUE}, residual : Int]
    BY <1>6 DEF DrainTimeout, RInv, RTypeOK
  <2>2. stop
    BY <1>6, Zenon DEF DrainTimeout, RInv, DrainCounts
  <2> QED BY <1>6, <2>1, <2>2, ReturnStep, Zenon DEF DrainTimeout
<1>7. CASE ReloadStop
  BY <1>7, ReturnStep, Zenon DEF ReloadStop
<1>8. CASE StopTransition
  <2>1. CASE (stop \/ inFlight = {}) /\ Return("ok", inFlight)
    BY <1>8, <2>1, ReturnStep, Zenon DEF StopTransition
  <2>2. CASE loop' = "stopDrain" /\ UNCHANGED <<result, task, inFlight>>
    <3>1. RetriesCounted'
      BY <1>8, SameBackoffs, Zenon DEF RInv, StopTransition
    <3> QED
      BY <1>8, <2>2, <3>1, Zenon
         DEF StopTransition, RInv, RTypeOK, LoopHolds, DrainCounts, NothingRunsOn, DrainRecorded,
             CleanEndIsComplete
  <2> QED BY <1>8, <2>1, <2>2, Zenon DEF StopTransition
<1>9. CASE MonitorExit
  BY <1>9, ReturnStep, Zenon DEF MonitorExit
<1>10. ASSUME NEW d \in Dispatches, HandlerErrs(d) PROVE RInv'
  <2>1. /\ attempts' = [attempts EXCEPT ![d] = @ + 1] /\ attempts' \in [Dispatches -> Nat]
        /\ facts' = [facts EXCEPT !["retries"] = @ + 1]
    BY <1>10 DEF HandlerErrs, Recorded, RInv, RTypeOK
  <2>2. /\ facts' \in [dispatched : Nat, completed : Nat, failed : Nat, retries : Nat]
        /\ \A c \in {"dispatched", "completed", "failed"} : facts'[c] = facts[c]
        /\ facts'.retries = facts.retries + 1
    BY <2>1 DEF RInv, RTypeOK
  <2>3. RetriesCounted'
    BY <2>1, <2>2, BackoffAdded, Zenon DEF RInv, RetriesCounted
  <2> QED
    BY <1>10, <2>1, <2>2, <2>3, TaskMoves, Zenon DEF HandlerErrs
<1>11. ASSUME NEW d \in Dispatches, HandlerReturns(d) \/ RetryDue(d) \/ RetryInterrupted(d) \/ DispatchDies(d)
       PROVE  RInv'
  <2>1. /\ UNCHANGED <<attempts, facts>> /\ task[d] \in {"running", "backoff"}
        /\ \E t \in {"running", "backoff", "ok", "failed"} : SetTask(d, t)
    BY <1>11, Zenon DEF HandlerReturns, RetryDue, RetryInterrupted, DispatchDies
  <2>2. RetriesCounted'
    BY <2>1, SameBackoffs, Zenon DEF RInv
  <2>3. /\ attempts' \in [Dispatches -> Nat]
        /\ facts' \in [dispatched : Nat, completed : Nat, failed : Nat, retries : Nat]
        /\ \A c \in {"dispatched", "completed", "failed"} : facts'[c] = facts[c]
    BY <2>1, Zenon DEF RInv, RTypeOK
  <2> QED BY <2>1, <2>2, <2>3, TaskMoves, Zenon
<1>12. CASE RequestStop
  <2>1. RetriesCounted'
    BY <1>12, SameBackoffs, Zenon DEF RInv, RequestStop
  <2> QED
    BY <1>12, <2>1, Zenon
       DEF RequestStop, RInv, RTypeOK, LoopHolds, DrainCounts, NothingRunsOn, DrainRecorded,
           CleanEndIsComplete
<1> QED
  BY <1>1, <1>2, <1>3, <1>4, <1>5, <1>6, <1>7, <1>8, <1>9, <1>10, <1>11, <1>12, Zenon
     DEF RNext, LoopStep, TaskStep

\* The event loop's accounting holds for any number of events, retries and permits.
THEOREM LoopInvariance == RSpec => []RInv
BY RInitInv, RStep, PTL DEF RSpec

\* The runtime facts account for every dispatch and every retry, and the outcome of
\* a drain for all it started with.
THEOREM FactsAreExact == RSpec => []FactsExact
<1>1. ASSUME RInv PROVE FactsExact
  <2>1. ASSUME loop # "done" PROVE Cardinality(Busy) <= Cardinality(inFlight)
    <3>1. Busy \in SUBSET inFlight
      BY <1>1, <2>1, Zenon DEF RInv, LoopHolds, Busy
    <3> QED BY <1>1, <3>1, FlightSize, FS_Subset, Zenon DEF RInv, RTypeOK
  <2>2. Cardinality(Busy) \in Nat /\ Cardinality(inFlight) \in Nat
    BY <1>1, FlightSize, Zenon DEF RInv, RTypeOK, Busy
  <2>3. PressureInFlight = Cardinality(Busy)
    BY <2>2, RunnerAssumption DEF PressureInFlight
  <2> QED
    BY <1>1, <2>1, <2>2, <2>3
       DEF RInv, RTypeOK, LoopHolds, RetriesCounted, DrainRecorded, FactsExact
<1> QED BY <1>1, LoopInvariance, PTL

\* A generation that ends well leaves no dispatch unfinished and none failed.
THEOREM CleanEndsAreComplete == RSpec => []CleanEndIsComplete
<1>1. RInv => CleanEndIsComplete
  BY Zenon DEF RInv
<1> QED BY <1>1, LoopInvariance, PTL

(* -------------------------------- the hosts ------------------------------ *)

HTypeOK ==
    /\ place \in [Hosts -> {"down", "poll", "wait", "woken", "got", "busy", "idle", "off"}]
    /\ sources \in Seq(Publishers) /\ publish \in [Publishers -> Nat] /\ lastId \in Nat
    /\ sent \in Seq(Nat) /\ cursor \in [Hosts -> Nat] /\ base \in [Hosts -> Nat]
    /\ lagged \in [Hosts -> BOOLEAN] /\ got \in [Hosts -> Nat]
    /\ handled \in [Hosts -> Seq(Nat \X Nat \X Nat)]
    /\ permit \in BOOLEAN /\ wokenBy \in [Hosts -> {"none", "one", "all"}] /\ ticks \in Nat

\* Only a signal has stored notifications.
OnlySignalsStore == kind # "signal" => ~permit /\ \A h \in Hosts : wokenBy[h] # "one"

\* A topic host never handles a position at or beyond its cursor, the one it has
\* received and not returned included; and the positions it has passed since it
\* subscribed are handled, but for that one.
HostInOrder(h) ==
    /\ cursor[h] <= Len(sent) /\ place[h] # "woken"
    /\ \A i \in DOMAIN handled[h] :
         /\ handled[h][i][1] <= cursor[h]
         /\ place[h] = "got" => handled[h][i][1] < cursor[h]
    /\ \A i, j \in DOMAIN handled[h] : i < j => handled[h][i][1] < handled[h][j][1]
    /\ ~lagged[h] /\ place[h] \in {"poll", "wait", "busy", "got"} =>
         \A n \in base[h] + 1 .. cursor[h] :
             (n = cursor[h] /\ place[h] = "got") \/ \E i \in DOMAIN handled[h] : handled[h][i][1] = n

TopicInOrder == kind = "topic" => \A h \in Hosts : HostInOrder(h)

\* Every dispatch of a cron host has a tick of its own, and so has every host that
\* is woken.
TickEach ==
    kind = "cron" => \A h \in Hosts :
        /\ place[h] # "got"
        /\ Len(handled[h]) <= ticks
        /\ place[h] = "woken" => Len(handled[h]) < ticks

\* last_id holds an id that no dispatch has had.
IdsTakenOnce ==
    /\ lastId <= Len(sources)
    /\ \A h \in Hosts : \A i \in DOMAIN handled[h] :
         /\ handled[h][i][3] <= Len(sources)
         /\ handled[h][i][3] # 0 => handled[h][i][3] # lastId
    /\ \A h, k \in Hosts : \A i \in DOMAIN handled[h], j \in DOMAIN handled[k] :
         (handled[h][i][3] # 0 /\ handled[h][i][3] = handled[k][j][3]) => (h = k /\ i = j)

HInv == HTypeOK /\ OnlySignalsStore /\ TopicInOrder /\ TickEach /\ IdsTakenOnce

\* The hosts start with nothing sent, handled or stored.
LEMMA HInitInv == HInit => HInv
<1> SUFFICES ASSUME HInit PROVE HInv
  BY Zenon
<1>0. \A S : <<>> \in Seq(S) /\ Len(<<>>) = 0 /\ DOMAIN <<>> = {}
  OBVIOUS
<1>1. HTypeOK
  <2>1. handled \in [Hosts -> Seq(Nat \X Nat \X Nat)]
    BY <1>0, Zenon DEF HInit
  <2>2. sources \in Seq(Publishers) /\ sent \in Seq(Nat)
    BY <1>0, Zenon DEF HInit
  <2>3. permit \in BOOLEAN /\ lagged \in [Hosts -> BOOLEAN]
    BY Zenon DEF HInit
  <2> QED BY <2>1, <2>2, <2>3, Zenon DEF HInit, HTypeOK, Zero
<1>2. \A h \in Hosts : handled[h] = <<>> /\ Len(handled[h]) = 0 /\ DOMAIN handled[h] = {}
  <2>1. \A h \in Hosts : handled[h] = <<>>
    BY Zenon DEF HInit
  <2> QED BY <1>0, <2>1, Zenon
<1>3. IdsTakenOnce
  BY <1>2 DEF HInit, IdsTakenOnce
<1>4. TopicInOrder
  <2>1. Len(sent) = 0 /\ \A h \in Hosts : base[h] = 0 /\ cursor[h] = 0 /\ place[h] = "down"
    BY <1>0, Zenon DEF HInit, Zero
  <2>2. \A h \in Hosts : \A i \in DOMAIN handled[h] : FALSE
    BY <1>2, Zenon
  <2>3. ASSUME NEW h \in Hosts PROVE HostInOrder(h)
    <3>1. cursor[h] <= Len(sent) /\ place[h] # "woken" /\ place[h] \notin {"poll", "wait", "busy", "got"}
      BY <2>1
    <3> QED BY <2>2, <3>1, Zenon DEF HostInOrder
  <2> QED BY <2>3, Zenon DEF TopicInOrder
<1> QED
  BY <1>1, <1>2, <1>3, <1>4 DEF HInit, HInv, OnlySignalsStore, TickEach

\* A step that dispatches nothing, publishes nothing and moves no receiver: hosts
\* move between the places where they handle nothing new.
LEMMA QuietStep ==
    ASSUME HInv, UNCHANGED <<kind, sources, lastId, sent, cursor, base, lagged, got, handled, ticks>>,
           place' \in [Hosts -> {"down", "poll", "wait", "woken", "got", "busy", "idle", "off"}],
           publish' \in [Publishers -> Nat], permit' \in BOOLEAN,
           wokenBy' \in [Hosts -> {"none", "one", "all"}],
           kind # "signal" => ~permit' /\ \A h \in Hosts : wokenBy'[h] # "one",
           kind = "topic" => \A h \in Hosts :
              /\ place'[h] # "woken" /\ (place'[h] = "got" => place[h] = "got")
              /\ place'[h] \in {"poll", "wait", "busy"} => place[h] \in {"poll", "wait", "busy"},
           kind = "cron" => \A h \in Hosts :
              place'[h] # "got" /\ (place'[h] = "woken" => place[h] = "woken")
    PROVE  HInv'
<1>1. HTypeOK' /\ OnlySignalsStore'
  BY Zenon DEF HInv, HTypeOK, OnlySignalsStore
<1>2. TopicInOrder'
  BY DEF HInv, TopicInOrder, HostInOrder
<1>3. TickEach'
  BY Zenon DEF HInv, HTypeOK, TickEach
<1>4. IdsTakenOnce'
  BY DEF HInv, IdsTakenOnce
<1> QED BY <1>1, <1>2, <1>3, <1>4, Zenon DEF HInv

\* What handle_step returns: one transition more, at the end.
LEMMA Appended ==
    ASSUME HTypeOK, NEW h \in Hosts, NEW e \in Nat \X Nat \X Nat,
           handled' = [handled EXCEPT ![h] = Append(@, e)]
    PROVE  /\ handled' \in [Hosts -> Seq(Nat \X Nat \X Nat)]
           /\ Len(handled'[h]) = Len(handled[h]) + 1
           /\ DOMAIN handled'[h] = DOMAIN handled[h] \cup {Len(handled[h]) + 1}
           /\ DOMAIN handled[h] = 1..Len(handled[h]) /\ Len(handled[h]) \in Nat
           /\ handled'[h][Len(handled[h]) + 1] = e
           /\ \A i \in DOMAIN handled[h] : handled'[h][i] = handled[h][i]
           /\ \A k \in Hosts : k # h => handled'[k] = handled[k]
<1>1. handled[h] \in Seq(Nat \X Nat \X Nat) /\ handled'[h] = Append(handled[h], e)
      /\ \A k \in Hosts : k # h => handled'[k] = handled[k]
  BY Zenon DEF HTypeOK
<1>2. Append(handled[h], e) \in Seq(Nat \X Nat \X Nat)
  BY <1>1
<1>3. handled' \in [Hosts -> Seq(Nat \X Nat \X Nat)]
  BY <1>2, Zenon DEF HTypeOK
<1>4. Len(handled'[h]) = Len(handled[h]) + 1 /\ DOMAIN handled[h] = 1..Len(handled[h])
      /\ DOMAIN handled'[h] = 1..(Len(handled[h]) + 1) /\ Len(handled[h]) \in Nat
  BY <1>1, <1>2
<1>5. handled'[h][Len(handled[h]) + 1] = e /\ \A i \in 1..Len(handled[h]) : handled'[h][i] = handled[h][i]
  BY <1>1, <1>4
<1>6. 1..(Len(handled[h]) + 1) = 1..Len(handled[h]) \cup {Len(handled[h]) + 1}
  BY <1>4
<1> QED BY <1>1, <1>3, <1>4, <1>5, <1>6, Zenon

\* DropStep leaves the kinds without stored notifications without them.
LEMMA DropStepQuiet ==
    ASSUME HInv, NEW h \in Hosts, NEW next \in {"poll", "down"}, DropStep(h, next),
           place[h] \in {"poll", "wait", "woken", "busy", "idle"}
    PROVE  /\ place' \in [Hosts -> {"down", "poll", "wait", "woken", "got", "busy", "idle", "off"}]
           /\ permit' \in BOOLEAN /\ wokenBy' \in [Hosts -> {"none", "one", "all"}]
           /\ kind # "signal" =>
                /\ ~permit' /\ \A k \in Hosts : wokenBy'[k] # "one"
                /\ place' = [place EXCEPT ![h] = next]
BY Zenon DEF HInv, HTypeOK, OnlySignalsStore, DropStep, Waiting

\* handle_step returns: the dispatch takes the last recorded id, if there is one.
LEMMA StepReturnsStep == ASSUME HInv, NEW h \in Hosts, StepReturns(h) PROVE HInv'
<1> DEFINE e == IF kind = "cron" THEN <<0, 0, 0>> ELSE <<cursor[h], got[h], lastId>>
           n == Len(handled[h]) + 1
<1>1. e \in Nat \X Nat \X Nat /\ handled' = [handled EXCEPT ![h] = Append(@, e)]
  BY Zenon DEF HInv, HTypeOK, StepReturns, TakeId
<1>2. /\ handled' \in [Hosts -> Seq(Nat \X Nat \X Nat)]
      /\ Len(handled'[h]) = n
      /\ DOMAIN handled'[h] = DOMAIN handled[h] \cup {n}
      /\ DOMAIN handled[h] = 1..Len(handled[h]) /\ Len(handled[h]) \in Nat
      /\ handled'[h][n] = e
      /\ \A i \in DOMAIN handled[h] : handled'[h][i] = handled[h][i]
      /\ \A k \in Hosts : k # h => handled'[k] = handled[k]
  BY <1>1, Appended, Zenon DEF HInv
<1>3. /\ place' = [place EXCEPT ![h] = "busy"] /\ got' = [got EXCEPT ![h] = 0]
      /\ wokenBy' = [wokenBy EXCEPT ![h] = "none"]
      /\ UNCHANGED <<kind, sources, publish, sent, cursor, base, lagged, permit, ticks>>
      /\ lastId' = IF kind = "cron" THEN lastId ELSE 0
      /\ place[h] \in {"got", "woken"}
  BY Zenon DEF StepReturns, TakeId, topicvars, cronvars
<1>4. HTypeOK' /\ OnlySignalsStore'
  BY <1>2, <1>3, Zenon DEF HInv, HTypeOK, OnlySignalsStore
<1>5. TopicInOrder'
  <2> SUFFICES ASSUME kind = "topic", NEW k \in Hosts PROVE HostInOrder(k)'
    BY <1>3, Zenon DEF TopicInOrder
  <2>1. HostInOrder(k) /\ HostInOrder(h)
    BY Zenon DEF HInv, TopicInOrder
  <2>2. e[1] = cursor[h] /\ place[h] = "got" /\ cursor[h] \in Nat
    BY <1>3, <2>1, Zenon DEF HInv, HTypeOK, HostInOrder
  <2>3. CASE k # h
    <3>1. place'[k] = place[k] /\ handled'[k] = handled[k]
      BY <1>2, <1>3, <2>3, Zenon DEF HInv, HTypeOK
    <3> QED BY <1>3, <2>1, <3>1 DEF HostInOrder
  <2>4. CASE k = h
    <3>1. place'[h] = "busy"
      BY <1>3, Zenon DEF HInv, HTypeOK
    <3>2. \A i \in DOMAIN handled[h] : handled'[h][i][1] < cursor[h] /\ i < n
      <4>1. \A i \in DOMAIN handled[h] : handled[h][i][1] < cursor[h]
        BY <2>1, <2>2, Zenon DEF HostInOrder
      <4>2. \A i \in DOMAIN handled[h] : i < n
        BY <1>2
      <4> QED BY <1>2, <4>1, <4>2, Zenon
    <3>3. handled'[h][n][1] = cursor[h] /\ n \in DOMAIN handled'[h]
      BY <1>2, <2>2, Zenon
    <3> HIDE DEF e, n
    <3>4. \A i \in DOMAIN handled'[h] : handled'[h][i][1] <= cursor[h]
      <4>1. \A i \in DOMAIN handled'[h] : i \in DOMAIN handled[h] \/ i = n
        BY <1>2, Zenon
      <4>2. \A i \in DOMAIN handled[h] : handled'[h][i][1] \in Nat
        BY <1>2, SMTT(60) DEF HInv, HTypeOK
      <4> QED BY <2>2, <3>2, <3>3, <4>1, <4>2
    <3>5. \A i, j \in DOMAIN handled'[h] : i < j => handled'[h][i][1] < handled'[h][j][1]
      <4> SUFFICES ASSUME NEW i \in DOMAIN handled'[h], NEW j \in DOMAIN handled'[h], i < j
                   PROVE  handled'[h][i][1] < handled'[h][j][1]
        BY Zenon
      <4>1. n \in Nat /\ i \in DOMAIN handled[h] \cup {n} /\ j \in DOMAIN handled[h] \cup {n}
        BY <1>2, SMTT(60) DEF n
      <4>2. i \in DOMAIN handled[h]
        BY <1>2, <3>2, <4>1
      <4>3. CASE j = n BY <3>2, <3>3, <4>2, <4>3, Zenon
      <4>4. CASE j \in DOMAIN handled[h] BY <1>2, <2>1, <4>2, <4>4, Zenon DEF HostInOrder
      <4> QED BY <4>1, <4>3, <4>4, Zenon
    <3>6. ASSUME ~lagged[h], NEW m \in base[h] + 1 .. cursor[h]
          PROVE  \E i \in DOMAIN handled'[h] : handled'[h][i][1] = m
      <4>1. CASE m = cursor[h] BY <3>3, <4>1, Zenon
      <4>2. CASE m # cursor[h]
        <5>1. PICK i \in DOMAIN handled[h] : handled[h][i][1] = m
          BY <2>1, <2>2, <3>6, <4>2, Zenon DEF HostInOrder
        <5> QED BY <1>2, <5>1, Zenon
      <4> QED BY <4>1, <4>2, Zenon
    <3> QED BY <1>3, <2>1, <2>4, <3>1, <3>4, <3>5, <3>6 DEF HostInOrder
  <2> QED BY <2>3, <2>4, Zenon
<1>6. TickEach'
  <2> SUFFICES ASSUME kind = "cron", NEW k \in Hosts
               PROVE  (/\ place[k] # "got" /\ Len(handled[k]) <= ticks
                       /\ place[k] = "woken" => Len(handled[k]) < ticks)'
    BY <1>3, Zenon DEF TickEach
  <2>1. place[k] # "got" /\ Len(handled[k]) <= ticks /\ (place[k] = "woken" => Len(handled[k]) < ticks)
    BY Zenon DEF HInv, TickEach
  <2>2. CASE k # h
    <3>1. place'[k] = place[k] /\ handled'[k] = handled[k]
      BY <1>2, <1>3, <2>2, Zenon DEF HInv, HTypeOK
    <3> QED BY <1>3, <2>1, <3>1, Zenon
  <2>3. CASE k = h
    <3>1. place'[h] = "busy" /\ place[h] = "woken"
      BY <1>3, <2>1, <2>3, Zenon DEF HInv, HTypeOK
    <3> QED BY <1>2, <1>3, <2>1, <2>3, <3>1 DEF HInv, HTypeOK
  <2> QED BY <2>2, <2>3, Zenon
<1>7. IdsTakenOnce'
  <2>1. e[3] = (IF kind = "cron" THEN 0 ELSE lastId) /\ e[3] \in Nat
    BY Zenon DEF HInv, HTypeOK
  <2>2. \A k \in Hosts : \A i \in DOMAIN handled'[k] :
          \/ i \in DOMAIN handled[k] /\ handled'[k][i] = handled[k][i]
          \/ k = h /\ i = n /\ handled'[k][i] = e
    BY <1>2, Zenon
  <2> HIDE DEF e, n
  <2>3. \A k \in Hosts : \A i \in DOMAIN handled[k] : handled[k][i][3] \in Nat
    BY DEF HInv, HTypeOK
  <2>4. Len(sources) \in Nat /\ lastId \in Nat
    BY DEF HInv, HTypeOK
  <2>5. /\ lastId' <= Len(sources')
        /\ \A k \in Hosts : \A i \in DOMAIN handled'[k] :
             /\ handled'[k][i][3] <= Len(sources')
             /\ handled'[k][i][3] # 0 => handled'[k][i][3] # lastId'
    BY <1>3, <2>1, <2>2, <2>4 DEF HInv, IdsTakenOnce
  <2>6. ASSUME NEW k \in Hosts, NEW l \in Hosts, NEW i \in DOMAIN handled'[k], NEW j \in DOMAIN handled'[l],
               handled'[k][i][3] # 0, handled'[k][i][3] = handled'[l][j][3]
        PROVE  k = l /\ i = j
    BY <2>1, <2>2, <2>6 DEF HInv, IdsTakenOnce
  <2> QED BY <2>5, <2>6 DEF IdsTakenOnce
<1> QED BY <1>4, <1>5, <1>6, <1>7, Zenon DEF HInv

\* A host whose receiver moves to position c: nothing it has handled is beyond it.
LEMMA ReceiverMoves ==
    ASSUME HInv, kind = "topic", NEW h \in Hosts, NEW c \in Nat, NEW pl \in {"poll", "wait", "got"},
           cursor[h] <= c, c <= Len(sent),
           cursor' = [cursor EXCEPT ![h] = c], place' = [place EXCEPT ![h] = pl],
           UNCHANGED <<kind, sources, publish, lastId, sent, handled, permit, wokenBy, ticks>>,
           got' \in [Hosts -> Nat], base' \in [Hosts -> Nat], lagged' \in [Hosts -> BOOLEAN],
           \A k \in Hosts : k # h => base'[k] = base[k] /\ lagged'[k] = lagged[k],
           pl = "got" => cursor[h] < c,
           ~lagged'[h] => \/ base'[h] = c /\ pl # "got"
                         \/ /\ pl = "got" /\ c = cursor[h] + 1 /\ base'[h] = base[h]
                            /\ ~lagged[h] /\ place[h] = "wait"
    PROVE  HInv'
<1>1. HTypeOK' /\ OnlySignalsStore' /\ TickEach' /\ IdsTakenOnce'
  BY ZenonT(60) DEF HInv, HTypeOK, OnlySignalsStore, TickEach, IdsTakenOnce
<1>2. ASSUME NEW k \in Hosts PROVE HostInOrder(k)'
  <2>1. HostInOrder(k)
    BY Zenon DEF HInv, TopicInOrder
  <2>2. CASE k # h
    <3>1. place'[k] = place[k] /\ cursor'[k] = cursor[k] /\ base'[k] = base[k] /\ lagged'[k] = lagged[k]
      BY <2>2, Zenon DEF HInv, HTypeOK
    <3> QED BY <2>1, <3>1, Zenon DEF HostInOrder
  <2>3. CASE k = h
    <3>1. place'[h] = pl /\ cursor'[h] = c /\ cursor[h] \in Nat /\ base[h] \in Nat
      BY Zenon DEF HInv, HTypeOK
    <3>2. \A i \in DOMAIN handled[h] : handled[h][i][1] \in Nat /\ handled[h][i][1] <= cursor[h]
      <4>1. handled[h] \in Seq(Nat \X Nat \X Nat)
        BY Zenon DEF HInv, HTypeOK
      <4>2. \A i \in DOMAIN handled[h] : handled[h][i] \in Nat \X Nat \X Nat
        BY <4>1
      <4>3. \A x \in Nat \X Nat \X Nat : x[1] \in Nat
        OBVIOUS
      <4> QED BY <2>1, <2>3, <4>2, <4>3, Zenon DEF HostInOrder
    <3>3. \A i \in DOMAIN handled[h] : handled[h][i][1] <= c /\ (pl = "got" => handled[h][i][1] < c)
      BY <3>1, <3>2
    <3>4. ASSUME ~lagged'[h], NEW n \in base'[h] + 1 .. c
          PROVE  (n = c /\ pl = "got") \/ \E i \in DOMAIN handled[h] : handled[h][i][1] = n
      <4>1. CASE base'[h] = c
        BY <3>4, <4>1
      <4>2. CASE pl = "got" /\ c = cursor[h] + 1 /\ base'[h] = base[h] /\ ~lagged[h] /\ place[h] = "wait"
        <5>1. \A m \in base[h] + 1 .. cursor[h] : \E i \in DOMAIN handled[h] : handled[h][i][1] = m
          BY <2>1, <2>3, <4>2, SMTT(60) DEF HostInOrder
        <5>2. n = c \/ n \in base[h] + 1 .. cursor[h]
          BY <3>1, <4>2
        <5> QED BY <4>2, <5>1, <5>2, Zenon
      <4> QED BY <3>4, <4>1, <4>2, Zenon
    <3> QED BY <2>1, <2>3, <3>1, <3>3, <3>4 DEF HostInOrder
  <2> QED BY <2>2, <2>3, Zenon
<1> QED BY <1>1, <1>2, Zenon DEF HInv, TopicInOrder

\* TrackedSender::send puts the message behind those already sent.
LEMMA SendStep == ASSUME HInv, NEW p \in Publishers, SendMessage(p) PROVE HInv'
<1>1. sent' \in Seq(Nat) /\ Len(sent') = Len(sent) + 1 /\ Len(sent) \in Nat
  BY DEF HInv, HTypeOK, SendMessage
<1>2. UNCHANGED <<kind, place, sources, lastId, cursor, base, lagged, got, handled, permit, wokenBy, ticks>>
  BY Zenon DEF SendMessage, loopvars, signalvars, cronvars
<1>3. HTypeOK' /\ OnlySignalsStore'
  BY <1>1, <1>2, Zenon DEF HInv, HTypeOK, OnlySignalsStore, SendMessage
<1>4. ASSUME NEW h \in Hosts, HostInOrder(h) PROVE HostInOrder(h)'
  <2>1. cursor[h] <= Len(sent')
    BY <1>1, <1>4 DEF HostInOrder, HInv, HTypeOK
  <2> QED BY <1>2, <1>4, <2>1, Zenon DEF HostInOrder
<1>5. TickEach' /\ IdsTakenOnce'
  BY <1>2 DEF HInv, TickEach, IdsTakenOnce
<1> QED BY <1>2, <1>3, <1>4, <1>5, Zenon DEF HInv, TopicInOrder

\* A new id is recorded: no dispatch has had it.
LEMMA RecordIdStep == ASSUME HInv, NEW p \in Publishers, RecordId(p) PROVE HInv'
<1>1. sources' \in Seq(Publishers) /\ Len(sources') = Len(sources) + 1 /\ Len(sources) \in Nat
  BY DEF HInv, HTypeOK, RecordId
<1>2. UNCHANGED <<kind, place, sent, cursor, base, lagged, got, handled, permit, wokenBy, ticks>>
      /\ lastId' = Len(sources) + 1
  BY Zenon DEF RecordId, loopvars, topicvars, signalvars, cronvars
<1>3. HTypeOK' /\ OnlySignalsStore'
  BY <1>1, <1>2 DEF HInv, HTypeOK, OnlySignalsStore, RecordId
<1>4. TopicInOrder' /\ TickEach'
  BY <1>2, Zenon DEF HInv, TopicInOrder, HostInOrder, TickEach
<1>5. \A h \in Hosts : \A i \in DOMAIN handled[h] :
        handled[h][i][3] \in Nat /\ handled[h][i][3] <= Len(sources)
  BY SMTT(60) DEF HInv, HTypeOK, IdsTakenOnce
<1>6. \A h \in Hosts : \A i \in DOMAIN handled[h] :
        handled[h][i][3] <= Len(sources') /\ handled[h][i][3] # lastId'
  BY <1>1, <1>2, <1>5
<1>7. IdsTakenOnce'
  BY <1>1, <1>2, <1>6 DEF HInv, IdsTakenOnce
<1> QED BY <1>3, <1>4, <1>7, Zenon DEF HInv

\* A schedule is due: the woken hosts have a tick of their own.
LEMMA TickStep == ASSUME HInv, Tick PROVE HInv'
<1>1. UNCHANGED <<kind, sources, publish, lastId, sent, cursor, base, lagged, got, handled, permit>>
      /\ kind = "cron" /\ ticks' = ticks + 1
  BY Zenon DEF Tick, idvars, topicvars
<1>2. /\ place' \in [Hosts -> {"down", "poll", "wait", "woken", "got", "busy", "idle", "off"}]
      /\ wokenBy' \in [Hosts -> {"none", "one", "all"}]
      /\ \A h \in Hosts : wokenBy'[h] # "one" /\ place'[h] # "got"
      /\ \A h \in Hosts : place[h] = "woken" => place'[h] = "woken"
  BY <1>1, Zenon DEF Tick, WakeAll, Waiting, HInv, HTypeOK, OnlySignalsStore, TickEach
<1>3. HTypeOK' /\ OnlySignalsStore' /\ TopicInOrder'
  BY <1>1, <1>2 DEF HInv, HTypeOK, OnlySignalsStore, TopicInOrder
<1>4. TickEach'
  <2> SUFFICES ASSUME NEW h \in Hosts
               PROVE  Len(handled[h]) <= ticks + 1 /\ Len(handled[h]) < ticks + 1
    BY <1>1, <1>2, Zenon DEF TickEach
  <2>1. Len(handled[h]) \in Nat /\ ticks \in Nat
    BY DEF HInv, HTypeOK
  <2>2. Len(handled[h]) <= ticks
    BY <1>1, Zenon DEF HInv, TickEach
  <2> QED BY <2>1, <2>2
<1>5. IdsTakenOnce'
  BY <1>1 DEF HInv, IdsTakenOnce
<1> QED BY <1>3, <1>4, <1>5, Zenon DEF HInv

\* Every step of hosts, publishers and the clock keeps the invariant.
LEMMA HStep == HInv /\ [HNext]_hvars => HInv'
<1> SUFFICES ASSUME HInv, [HNext]_hvars PROVE HInv'
  BY Zenon
<1> USE DEF loopvars, idvars, topicvars, signalvars, cronvars, watchvars
<1>1. CASE UNCHANGED hvars
  <2>1. UNCHANGED <<place, sources, publish, lastId, sent, cursor, base, lagged, got, handled,
                    permit, wokenBy, ticks, kind>>
    BY <1>1, Zenon DEF hvars
  <2>2. /\ place \in [Hosts -> {"down", "poll", "wait", "woken", "got", "busy", "idle", "off"}]
        /\ publish \in [Publishers -> Nat] /\ permit \in BOOLEAN
        /\ wokenBy \in [Hosts -> {"none", "one", "all"}]
    BY Zenon DEF HInv, HTypeOK
  <2>3. /\ kind # "signal" => ~permit /\ \A h \in Hosts : wokenBy[h] # "one"
        /\ kind = "topic" => \A h \in Hosts : place[h] # "woken"
        /\ kind = "cron" => \A h \in Hosts : place[h] # "got"
    BY Zenon DEF HInv, OnlySignalsStore, TopicInOrder, HostInOrder, TickEach
  <2> QED BY <2>1, <2>2, <2>3, QuietStep, Zenon
<1>2. ASSUME NEW p \in Publishers, RecordId(p) PROVE HInv' BY <1>2, RecordIdStep, Zenon
<1>3. ASSUME NEW p \in Publishers, SendMessage(p) PROVE HInv' BY <1>3, SendStep, Zenon
<1>4. ASSUME NEW p \in Publishers, NotifyWaiters(p) PROVE HInv'
  BY <1>4, QuietStep, Zenon DEF NotifyWaiters, WakeAll, Waiting, HInv, HTypeOK
<1>5. ASSUME NEW p \in Publishers, NotifyOne(p) PROVE HInv'
  BY <1>5, QuietStep, Zenon DEF NotifyOne, Waiting, HInv, HTypeOK
<1>6. ASSUME NEW h \in Hosts, Setup(h) PROVE HInv'
  <2>1. CASE kind = "topic"
    <3>1. Subscribe(h)
      BY <1>6, <2>1, Zenon DEF Setup, AddJob
    <3>2. cursor[h] <= Len(sent) /\ Len(sent) \in Nat
      BY <2>1 DEF HInv, HTypeOK, TopicInOrder, HostInOrder
    <3>3. /\ cursor' = [cursor EXCEPT ![h] = Len(sent)] /\ place' = [place EXCEPT ![h] = "poll"]
          /\ UNCHANGED <<kind, sources, publish, lastId, sent, handled, permit, wokenBy, ticks, got>>
      BY <1>6, <3>1, Zenon DEF Setup, Subscribe
    <3>4. /\ base' \in [Hosts -> Nat] /\ lagged' \in [Hosts -> BOOLEAN] /\ got' \in [Hosts -> Nat]
          /\ base'[h] = Len(sent)
          /\ \A k \in Hosts : k # h => base'[k] = base[k] /\ lagged'[k] = lagged[k]
      BY <3>1, <3>2, <3>3, Zenon DEF Subscribe, HInv, HTypeOK
    <3>5. Len(sent) <= Len(sent) /\ "poll" \in {"poll", "wait", "got"} /\ "poll" # "got"
      BY <3>2
    <3> QED BY <2>1, <3>2, <3>3, <3>4, <3>5, ReceiverMoves, Zenon
  <2>2. CASE kind # "topic"
    BY <1>6, <2>2, QuietStep, Zenon DEF Setup, Subscribe, AddJob, HInv, HTypeOK, OnlySignalsStore, TickEach
  <2> QED BY <2>1, <2>2, Zenon
<1>7. ASSUME NEW h \in Hosts, SetupFails(h) PROVE HInv'
  BY <1>7, QuietStep, Zenon DEF SetupFails, HInv, HTypeOK, OnlySignalsStore, TickEach
<1>8. ASSUME NEW h \in Hosts, PollStep(h) PROVE HInv'
  <2>1. /\ place' \in [Hosts -> {"down", "poll", "wait", "woken", "got", "busy", "idle", "off"}]
        /\ permit' \in BOOLEAN /\ wokenBy' \in [Hosts -> {"none", "one", "all"}]
        /\ publish' \in [Publishers -> Nat]
        /\ UNCHANGED <<kind, sources, lastId, sent, cursor, base, lagged, got, handled, ticks>>
    BY <1>8, Zenon DEF PollStep, HInv, HTypeOK
  <2>2. kind # "signal" => /\ place' = [place EXCEPT ![h] = "wait"] /\ place[h] = "poll"
                           /\ ~permit' /\ \A k \in Hosts : wokenBy'[k] # "one"
    BY <1>8, Zenon DEF PollStep, HInv, OnlySignalsStore
  <2>3. /\ kind = "topic" => \A k \in Hosts : place[k] # "woken"
        /\ kind = "cron" => \A k \in Hosts : place[k] # "got"
    BY Zenon DEF HInv, TopicInOrder, HostInOrder, TickEach
  <2>4. place \in [Hosts -> {"down", "poll", "wait", "woken", "got", "busy", "idle", "off"}]
    BY Zenon DEF HInv, HTypeOK
  <2> QED BY <2>1, <2>2, <2>3, <2>4, QuietStep, Zenon
<1>9. ASSUME NEW h \in Hosts, ReceiveMessage(h) PROVE HInv'
  <2>1. /\ cursor[h] \in Nat /\ cursor[h] + 1 <= Len(sent) /\ cursor[h] + 1 \in Nat
        /\ sent[cursor[h] + 1] \in Nat
    <3>1. cursor[h] \in Nat /\ Len(sent) \in Nat /\ sent \in Seq(Nat)
      BY DEF HInv, HTypeOK
    <3>2. Len(sent) - cursor[h] >= 1
      BY <1>9, <3>1, HostsAssumption DEF ReceiveMessage
    <3>3. cursor[h] + 1 \in 1..Len(sent)
      BY <3>1, <3>2
    <3> QED BY <3>1, <3>3
  <2>2. got' \in [Hosts -> Nat]
    BY <1>9, <2>1, Zenon DEF ReceiveMessage, HInv, HTypeOK
  <2>3. base' \in [Hosts -> Nat] /\ lagged' \in [Hosts -> BOOLEAN]
        /\ cursor' = [cursor EXCEPT ![h] = cursor[h] + 1]
    BY <1>9, Zenon DEF ReceiveMessage, HInv, HTypeOK
  <2>4. ~lagged'[h] => base'[h] = base[h] /\ ~lagged[h] /\ place[h] = "wait"
    BY <1>9, Zenon DEF ReceiveMessage
  <2>5. /\ kind = "topic" /\ place' = [place EXCEPT ![h] = "got"]
        /\ UNCHANGED <<kind, sources, publish, lastId, sent, handled, permit, wokenBy, ticks, base, lagged>>
    BY <1>9, Zenon DEF ReceiveMessage
  <2>6. cursor[h] <= cursor[h] + 1 /\ cursor[h] < cursor[h] + 1
    BY <2>1
  <2> QED BY <2>1, <2>2, <2>3, <2>4, <2>5, <2>6, ReceiverMoves, Zenon
<1>10. ASSUME NEW h \in Hosts, TopicLags(h) PROVE HInv'
  <2>1. /\ Len(sent) - TopicCap \in Nat /\ cursor[h] <= Len(sent) - TopicCap
        /\ Len(sent) - TopicCap <= Len(sent)
    BY <1>10, HostsAssumption, SMTT(60) DEF TopicLags, HInv, HTypeOK
  <2>2. lagged' \in [Hosts -> BOOLEAN] /\ lagged'[h] /\ \A k \in Hosts : k # h => lagged'[k] = lagged[k]
    BY <1>10, Zenon DEF TopicLags, HInv, HTypeOK
  <2>3. place' = [place EXCEPT ![h] = "wait"] /\ base' \in [Hosts -> Nat] /\ got' \in [Hosts -> Nat]
    BY <1>10, Zenon DEF TopicLags, HInv, HTypeOK
  <2> QED BY <1>10, <2>1, <2>2, <2>3, ReceiverMoves, Zenon DEF TopicLags
<1>11. ASSUME NEW h \in Hosts, StepReturns(h) PROVE HInv' BY <1>11, StepReturnsStep, Zenon
<1>12. ASSUME NEW h \in Hosts, WatchFires(h) \/ WatchIdles(h) \/ WatchReloads(h) PROVE HInv'
  <2>1. /\ kind = "watch"
        /\ UNCHANGED <<kind, sources, publish, lastId, sent, cursor, base, lagged, got, handled, permit,
                       wokenBy, ticks>>
        /\ \E pl \in {"busy", "idle", "poll"} : place' = [place EXCEPT ![h] = pl]
    BY <1>12, Zenon DEF WatchFires, WatchIdles, WatchReloads
  <2>2. /\ place' \in [Hosts -> {"down", "poll", "wait", "woken", "got", "busy", "idle", "off"}]
        /\ permit' \in BOOLEAN /\ wokenBy' \in [Hosts -> {"none", "one", "all"}]
        /\ publish' \in [Publishers -> Nat] /\ ~permit' /\ \A k \in Hosts : wokenBy'[k] # "one"
    BY <2>1, Zenon DEF HInv, HTypeOK, OnlySignalsStore
  <2> QED BY <2>1, <2>2, QuietStep, Zenon
<1>13. ASSUME NEW h \in Hosts, Dispatched(h) PROVE HInv'
  BY <1>13, QuietStep, Zenon
     DEF Dispatched, HInv, HTypeOK, OnlySignalsStore, TickEach, TopicInOrder, HostInOrder
<1>14. ASSUME NEW h \in Hosts, HandlerEnds(h) PROVE HInv'
  <2>1. CASE place[h] \in {"wait", "woken"}
    <3>1. DropStep(h, "poll")
      BY <1>14, <2>1, Zenon DEF HandlerEnds
    <3>2. /\ place' \in [Hosts -> {"down", "poll", "wait", "woken", "got", "busy", "idle", "off"}]
          /\ permit' \in BOOLEAN /\ wokenBy' \in [Hosts -> {"none", "one", "all"}]
          /\ kind # "signal" =>
               /\ ~permit' /\ \A k \in Hosts : wokenBy'[k] # "one"
               /\ place' = [place EXCEPT ![h] = "poll"]
      BY <2>1, <3>1, DropStepQuiet, Zenon
    <3>3. /\ UNCHANGED <<kind, sources, lastId, sent, cursor, base, lagged, got, handled, ticks, publish>>
          /\ publish \in [Publishers -> Nat] /\ place \in
               [Hosts -> {"down", "poll", "wait", "woken", "got", "busy", "idle", "off"}]
      BY <1>14, <2>1, Zenon DEF HandlerEnds, HInv, HTypeOK
    <3>4. kind # "signal" => \A k \in Hosts : place'[k] = IF k = h THEN "poll" ELSE place[k]
      BY <3>2, <3>3, Zenon
    <3>5. kind = "topic" => \A k \in Hosts : place[k] # "woken"
      BY Zenon DEF HInv, TopicInOrder, HostInOrder
    <3>6. kind = "cron" => \A k \in Hosts : place[k] # "got"
      BY Zenon DEF HInv, TickEach
    <3>7. kind = "topic" => \A k \in Hosts :
            /\ place'[k] # "woken" /\ (place'[k] = "got" => place[k] = "got")
            /\ place'[k] \in {"poll", "wait", "busy"} => place[k] \in {"poll", "wait", "busy"}
      BY <2>1, <3>4, <3>5
    <3>8. kind = "cron" => \A k \in Hosts :
            place'[k] # "got" /\ (place'[k] = "woken" => place[k] = "woken")
      BY <3>4, <3>6
    <3> QED BY <3>2, <3>3, <3>7, <3>8, QuietStep, Zenon
  <2>2. CASE place[h] \notin {"wait", "woken"}
    BY <1>14, <2>2, QuietStep, Zenon
       DEF HandlerEnds, HInv, HTypeOK, OnlySignalsStore, TickEach, TopicInOrder, HostInOrder
  <2> QED BY <2>1, <2>2, Zenon
<1>15. ASSUME NEW h \in Hosts, GenerationEnds(h) PROVE HInv'
  BY <1>15, DropStepQuiet, QuietStep, ZenonT(60)
     DEF GenerationEnds, HInv, HTypeOK, TickEach, TopicInOrder, HostInOrder
<1>16. CASE Tick BY <1>16, TickStep, Zenon
<1>17. CASE Change
  BY <1>17, QuietStep, Zenon DEF Change, HInv, HTypeOK, OnlySignalsStore
<1> QED
  BY <1>1, <1>2, <1>3, <1>4, <1>5, <1>6, <1>7, <1>8, <1>9, <1>10, <1>11, <1>12, <1>13, <1>14, <1>15,
     <1>16, <1>17, Zenon DEF HNext, HostStep

\* Queues, signals and dispatches of the hosts agree for any number of hosts, publishers
\* and messages.
THEOREM HostsInvariance == HSpec => []HInv
BY HInitInv, HStep, PTL DEF HSpec

\* Topic messages are dispatched in order, once and without a gap, a tick makes at
\* most one dispatch, and no message identity is used twice.
THEOREM EventsAreDispatchedOnce == HSpec => []DispatchedOnce
<1>1. ASSUME HInv PROVE DispatchedOnce
  <2>1. ASSUME kind = "topic", NEW h \in Hosts, ~lagged[h], place[h] \in {"poll", "wait", "busy"}
        PROVE  base[h] + 1 .. cursor[h] \subseteq {handled[h][i][1] : i \in DOMAIN handled[h]}
    <3>1. HostInOrder(h)
      BY <1>1, <2>1, Zenon DEF HInv, TopicInOrder
    <3> QED BY <2>1, <3>1 DEF HostInOrder
  <2>2. kind = "topic" => \A h \in Hosts :
          \A i, j \in DOMAIN handled[h] : i < j => handled[h][i][1] < handled[h][j][1]
    BY <1>1, Zenon DEF HInv, TopicInOrder, HostInOrder
  <2>3. kind = "cron" => \A h \in Hosts : Len(handled[h]) <= ticks
    BY <1>1, Zenon DEF HInv, TickEach
  <2> QED BY <1>1, <2>1, <2>2, <2>3, Zenon DEF HInv, IdsTakenOnce, DispatchedOnce
<1> QED BY <1>1, HostsInvariance, PTL

(* ------------------------------- the permits ----------------------------- *)

\* For every ScalingPolicy the permits of the semaphore and current_limit agree whenever
\* no reconciliation is under way, the limit stays within 1..max_concurrency, and no more
\* than max_concurrency dispatches hold a permit.  PermitInv adds what holds inside a
\* reconciliation: the lock holder is the only one there, permits added are the ones its
\* target counts, permits revoked the ones the limit still counts.
CInv == CTypeOK /\ PermitInv

\* The saturating arithmetic of usize.
LEMMA Arithmetic ==
    ASSUME NEW x \in Int, NEW y \in Int
    PROVE  /\ CMin(x, y) \in Int /\ CMin(x, y) <= x /\ CMin(x, y) <= y
           /\ CMin(x, y) = x \/ CMin(x, y) = y
           /\ CMax(x, y) \in Int /\ CMax(x, y) >= x /\ CMax(x, y) >= y
           /\ CMax(x, y) = x \/ CMax(x, y) = y
           /\ SatSub(x, y) \in Nat /\ SatSub(x, y) >= x - y
BY DEF CMin, CMax, SatSub

\* Initially all permits are available.
LEMMA CInitInv == CInit => CInv
<1> SUFFICES ASSUME CInit PROVE CInv
  BY Zenon
<1>1. PermitInv
  BY ConcurrencyAssumption DEF CInit, PermitInv, Procs
<1>2. restore \in BOOLEAN
  BY Zenon DEF CInit
<1>3. CTypeOK
  BY <1>2, ConcurrencyAssumption DEF CInit, CTypeOK, Procs
<1> QED BY <1>1, <1>3, Zenon DEF CInv

\* What the monitor asks for is a natural number, whatever it sampled.
LEMMA ScaleTargetType ==
    ASSUME NEW l \in Nat, NEW f \in Nat, NEW m \in Nat, NEW c \in BOOLEAN
    PROVE  ScaleDownTarget(l, m, c) \in Nat /\ ScaleUpTarget(l, f, m) \in Nat
<1>1. Initial \in Nat /\ MaxConc \in Nat /\ l * Factor \in Nat
  BY ConcurrencyAssumption
<1> QED BY <1>1, Zenon DEF ScaleDownTarget, ScaleUpTarget, CMin, CMax

\* The overlay operations and the two readers touch neither permits nor limit.
LEMMA OverlaySteps ==
    ASSUME CInv,
           \/ \E l \in 0..(MaxConc + 1) : Request(l)
           \/ Clear \/ Expire \/ MonitorLimit \/ MonitorAvail \/ MonitorPrune
           \/ BeginDispatch \/ EffectivePolicy
    PROVE  CInv'
<1> USE ConcurrencyAssumption DEF CInv, CTypeOK, PermitInv, Procs, overlayVars, sampleVars
<1>1. CASE \E l \in 0..(MaxConc + 1) : Request(l)
  BY <1>1 DEF Request
<1>2. CASE Clear BY <1>2 DEF Clear
<1>3. CASE Expire BY <1>3, Zenon DEF Expire
<1>4. CASE MonitorLimit BY <1>4 DEF MonitorLimit
<1>5. CASE MonitorAvail BY <1>5 DEF MonitorAvail
<1>6. CASE MonitorPrune BY <1>6 DEF MonitorPrune, Prune, LiveLimit, LiveRestore
<1>7. CASE BeginDispatch BY <1>7, Zenon DEF BeginDispatch
<1>8. CASE EffectivePolicy BY <1>8 DEF EffectivePolicy, Prune, LiveLimit, LiveRestore
<1> QED BY <1>1, <1>2, <1>3, <1>4, <1>5, <1>6, <1>7, <1>8, Zenon

\* The monitor's target is a request only: permits and limit stay.
LEMMA TargetStep ==
    ASSUME CInv, MonitorTarget
    PROVE  CInv'
<1> DEFINE flying == SatSub(mLimit, mAvail)
           effective == IF ovlLimit > 0 THEN ovlLimit ELSE MaxConc
<1> USE DEF CInv
<1>1. flying \in Nat /\ effective \in Nat /\ mLimit \in Nat
  BY Arithmetic, ConcurrencyAssumption DEF CTypeOK
<1>2. PICK c \in BOOLEAN :
        target' = [target EXCEPT !["monitor"] =
                     IF flying = 0 THEN ScaleDownTarget(mLimit, effective, c)
                     ELSE ScaleUpTarget(mLimit, flying, effective)]
  BY Zenon DEF MonitorTarget
<1>3. ScaleDownTarget(mLimit, effective, c) \in Nat /\ ScaleUpTarget(mLimit, flying, effective) \in Nat
  <2> HIDE DEF flying, effective
  <2> QED BY <1>1, ScaleTargetType, Zenon
<1>4. target' \in [Procs -> Nat] /\ target'["dispatch"] = target["dispatch"]
  <2> HIDE DEF flying, effective
  <2> QED BY <1>2, <1>3, Zenon DEF CTypeOK, Procs
<1> QED
  BY <1>4, Zenon DEF MonitorTarget, CTypeOK, PermitInv, Procs, overlayVars, sampleVars

\* A permit changes hands; their sum does not change.
LEMMA PermitSteps ==
    ASSUME CInv, Acquire \/ Release
    PROVE  CInv'
<1> USE DEF CInv, CTypeOK, PermitInv, Procs, overlayVars, sampleVars
<1>1. CASE Acquire BY <1>1 DEF Acquire
<1>2. CASE Release BY <1>2 DEF Release
<1> QED BY <1>1, <1>2, Zenon

\* Each step of a reconciliation, taken by the holder of the mutex.
LEMMA ReconcileSteps ==
    ASSUME CInv, NEW p \in Procs, ReconcileStep(p)
    PROVE  CInv'
<1> USE ConcurrencyAssumption DEF CInv
<1>1. CASE Decide(p)
  <2>1. LiveLimit \in Nat /\ LiveRestore \in BOOLEAN
    BY Zenon DEF LiveLimit, LiveRestore, CTypeOK
  <2>2. target' \in [Procs -> Nat]
    BY <1>1, <2>1, Zenon DEF Decide, CTypeOK
  <2> QED
    BY <1>1, <2>1, <2>2, ZenonT(60) DEF Decide, CTypeOK, PermitInv, Procs, overlayVars, sampleVars
<1>2. CASE Reconcile(p)
  <2> DEFINE want == CMax(CMin(target[p], MaxConc), 1)
             keep == CMax(want, SatSub(limit, avail))
  <2>1. want \in 1..MaxConc
    BY DEF CTypeOK, CMax, CMin
  <2>2. SatSub(limit, keep) \in Nat /\ (want < limit => limit - SatSub(limit, keep) >= 1)
    BY <2>1 DEF CTypeOK, CMax, SatSub
  <2>3. pc[p] = "reconcile" /\ target' = [target EXCEPT ![p] = want] /\ revoked' = 0
    BY <1>2, Zenon DEF Reconcile
  <2>4. UNCHANGED <<limit, held, overlayVars, sampleVars>>
    BY <1>2, Zenon DEF Reconcile
  <2>5. \/ want > limit /\ avail' = avail + (want - limit) /\ pc' = [pc EXCEPT ![p] = "store"]
           /\ UNCHANGED <<lock, todo>>
        \/ want < limit /\ todo' = SatSub(limit, keep) /\ pc' = [pc EXCEPT ![p] = "revoke"]
           /\ UNCHANGED <<lock, avail>>
        \/ want = limit /\ Finish(p) /\ UNCHANGED <<avail, todo>>
    BY <1>2, Zenon DEF Reconcile
  <2> HIDE DEF want, keep
  <2> USE DEF CTypeOK, PermitInv, Procs, overlayVars, sampleVars
  <2>6. CASE want > limit /\ avail' = avail + (want - limit) /\ pc' = [pc EXCEPT ![p] = "store"]
             /\ UNCHANGED <<lock, todo>>
    BY <2>1, <2>3, <2>4, <2>6
  <2>7. CASE want < limit /\ todo' = SatSub(limit, keep) /\ pc' = [pc EXCEPT ![p] = "revoke"]
             /\ UNCHANGED <<lock, avail>>
    BY <2>1, <2>2, <2>3, <2>4, <2>7
  <2>8. CASE want = limit /\ Finish(p) /\ UNCHANGED <<avail, todo>>
    BY <2>1, <2>3, <2>4, <2>8 DEF Finish
  <2> QED BY <2>5, <2>6, <2>7, <2>8, Zenon
<1> USE DEF CTypeOK, PermitInv, Procs, overlayVars, sampleVars
<1>3. CASE StoreLimit(p) BY <1>3 DEF StoreLimit, Finish
<1>4. CASE Revoke(p) BY <1>4 DEF Revoke
<1>5. CASE RevokeEnd(p) BY <1>5 DEF RevokeEnd, Finish
<1> QED BY <1>1, <1>2, <1>3, <1>4, <1>5, Zenon DEF ReconcileStep

\* Every step keeps the accounts.
LEMMA CStep == CInv /\ [CNext]_cvars => CInv'
<1> SUFFICES ASSUME CInv, [CNext]_cvars PROVE CInv'
  BY Zenon
<1>1. CASE UNCHANGED cvars
  BY <1>1, Zenon DEF cvars, CInv, CTypeOK, PermitInv
<1>2. CASE CNext
  <2>1. "monitor" \in Procs /\ "dispatch" \in Procs
    BY Zenon DEF Procs
  <2> QED
    BY <1>2, <2>1, OverlaySteps, TargetStep, PermitSteps, ReconcileSteps, Zenon
       DEF CNext, MonitorStep, DispatchStep
<1> QED BY <1>1, <1>2, Zenon

\* The accounts are right in every reachable state.
THEOREM Accounts == CSpec => []CInv
BY CInitInv, CStep, PTL DEF CSpec

\* current_limit is the number of permits outside reconciliation: scaling and
\* overlays neither lose nor invent one.
THEOREM PermitsAreConserved == CSpec => []PermitsConserved
<1>1. CInv => PermitsConserved
  BY Zenon DEF CInv, PermitInv, PermitsConserved
<1> QED BY <1>1, Accounts, PTL

\* current_limit never leaves 1..max_concurrency.
THEOREM LimitStaysInRange == CSpec => []LimitInRange
<1>1. CInv => LimitInRange
  BY Zenon DEF CInv, PermitInv, LimitInRange
<1> QED BY <1>1, Accounts, PTL

\* No more than max_concurrency handlers run, also in the middle of a reconciliation.
THEOREM HandlersAreBounded == CSpec => []HardLimit
<1>1. CInv => HardLimit
  BY ConcurrencyAssumption DEF CInv, CTypeOK, PermitInv, HardLimit, Procs
<1> QED BY <1>1, Accounts, PTL
=============================================================================
