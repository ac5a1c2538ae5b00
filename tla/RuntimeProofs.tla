---------------------------- MODULE RuntimeProofs ----------------------------
(***************************************************************************)
(* What a daemon runs on, for any number of services, permits, reloads,     *)
(* sinks and log events: the startup permits and threads of isolated         *)
(* generations (IsolatedGeneration), the shutdown of the runtimes            *)
(* (DaemonRuntimes), the progress that generations hand over on the shelf    *)
(* (ShelvedProgress) and the log queue with its readers (Logging).           *)
(* Each part has its inductive invariant, a lemma for the initial states, a  *)
(* lemma for a step, and the theorems that follow.                           *)
(***************************************************************************)
EXTENDS DaemonRuntimes, IsolatedGeneration, ShelvedProgress, Logging, FiniteSetTheorems, TLAPS

(* ------------------------- isolated generations -------------------------- *)

BuildingSet == {g \in Starting : thread[g] = "building"}
Over == {"exiting", "gone", "panicked"}

\* The types of what a generation's supervisor and thread write.
ZTypeOK ==
    /\ permits \in Nat
    /\ sup \in [Starting -> {"gate", "await", "join", "done", "dropped"}]
    /\ thread \in [Starting -> {"none", "building", "body", "dropping"} \cup Over]
    /\ leftover \in [Starting -> BOOLEAN]
    /\ bridge \in [Starting -> {"open", "RuntimeBuild", "body", "closed"}]
    /\ boundary \in [Starting -> {"none", "Joined", "Panicked", "TimedOut"}]

\* The permits are counted; the outcome is on the bridge only when the thread is on
\* its way out with nothing left behind; the supervisor moves on only with an outcome,
\* or from the gate.
ZInv ==
    /\ ZTypeOK
    /\ IsFiniteSet(BuildingSet)
    /\ permits + Cardinality(BuildingSet) = StartupLimit
    /\ \A g \in Starting :
        /\ sup[g] = "gate" => thread[g] = "none"
        /\ bridge[g] # "open" => thread[g] \in Over
        /\ leftover[g] => thread[g] = "dropping"
        /\ sup[g] = "join" => bridge[g] # "open"
        /\ sup[g] = "done" => thread[g] \in {"none"} \cup Over
        /\ boundary[g] = "Joined" => thread[g] = "gone"
        /\ boundary[g] = "Panicked" => thread[g] = "panicked"

\* At first every generation is at the gate and all permits are there.
LEMMA ZInitInv == ZInit => ZInv
<1> SUFFICES ASSUME ZInit PROVE ZInv
  BY Zenon
<1>1. BuildingSet = {}
  BY Zenon DEF ZInit, BuildingSet
<1>2. IsFiniteSet(BuildingSet) /\ Cardinality(BuildingSet) = 0
  BY <1>1, FS_EmptySet, Zenon
<1>3. ZTypeOK
  BY StartupLimitAssumption, Zenon DEF ZInit, ZTypeOK, Over
<1> QED BY <1>2, <1>3, StartupLimitAssumption DEF ZInit, ZInv

\* A step that leaves every thread out of, or inside, "building" leaves the accounts.
LEMMA SameBuilding ==
    ASSUME ZInv, UNCHANGED permits, BuildingSet' = BuildingSet
    PROVE  (IsFiniteSet(BuildingSet) /\ permits + Cardinality(BuildingSet) = StartupLimit)'
BY Zenon DEF ZInv

\* A permit goes to a thread that builds its runtime.
LEMMA AdmitStep ==
    ASSUME ZInv, NEW g \in Starting, Admit(g)
    PROVE  ZInv'
<1> USE DEF ZInv, ZTypeOK, Over
<1>1. BuildingSet' = BuildingSet \cup {g} /\ g \notin BuildingSet
  BY Zenon DEF Admit, BuildingSet
<1>2. IsFiniteSet(BuildingSet') /\ Cardinality(BuildingSet') = Cardinality(BuildingSet) + 1
  BY <1>1, FS_AddElement, Zenon
<1>3. Cardinality(BuildingSet) \in Nat
  BY FS_CardinalityType, Zenon
<1>4. (IsFiniteSet(BuildingSet) /\ permits + Cardinality(BuildingSet) = StartupLimit)'
  BY <1>2, <1>3 DEF Admit
<1> HIDE DEF ZInv
<1>5. ZTypeOK'
  BY DEF Admit, ZInv
<1> QED BY <1>4, <1>5 DEF Admit, ZInv

\* The permit comes back when the runtime is built, or cannot be.
LEMMA BuildingStep ==
    ASSUME ZInv, NEW g \in Starting, Building(g)
    PROVE  ZInv'
<1> USE DEF ZTypeOK, Over
<1>0. thread[g] = "building" /\ permits' = permits + 1
      /\ thread' \in {[thread EXCEPT ![g] = "body"], [thread EXCEPT ![g] = "exiting"]}
  BY Zenon DEF Building, RuntimeBuilt, RuntimeBuildFails
<1>1. BuildingSet' = BuildingSet \ {g} /\ g \in BuildingSet
  BY <1>0 DEF BuildingSet, ZInv
<1>2. IsFiniteSet(BuildingSet') /\ Cardinality(BuildingSet') = Cardinality(BuildingSet) - 1
  BY <1>1, FS_RemoveElement, Zenon DEF ZInv
<1>3. Cardinality(BuildingSet) \in Nat
  BY FS_CardinalityType, Zenon DEF ZInv
<1>4. (IsFiniteSet(BuildingSet) /\ permits + Cardinality(BuildingSet) = StartupLimit)'
  BY <1>0, <1>2, <1>3 DEF ZInv
<1>5. ZTypeOK'
  BY DEF Building, RuntimeBuilt, RuntimeBuildFails, ZInv
<1> QED BY <1>4, <1>5 DEF Building, RuntimeBuilt, RuntimeBuildFails, ZInv

\* Every step of a generation keeps the accounts and the order of its end.
LEMMA ZStep == ZInv /\ [ZNext]_zvars => ZInv'
<1> SUFFICES ASSUME ZInv, [ZNext]_zvars PROVE ZInv'
  BY Zenon
<1>1. CASE UNCHANGED zvars
  BY <1>1, Zenon DEF zvars, ZInv, ZTypeOK, BuildingSet
<1>2. ASSUME NEW g \in Starting,
             SpawnFails(g) \/ GateCancelled(g) \/ Receive(g) \/ Join(g) \/ SupervisorDropped(g)
             \/ StopGeneration(g) \/ LeftoverEnds(g)
      PROVE  ZInv'
  <2>1. UNCHANGED <<permits, thread>>
    BY <1>2, Zenon DEF SpawnFails, GateCancelled, Receive, Join, SupervisorDropped, StopGeneration, LeftoverEnds
  <2>2. (IsFiniteSet(BuildingSet) /\ permits + Cardinality(BuildingSet) = StartupLimit)'
    BY <2>1, SameBuilding, Zenon DEF BuildingSet
  <2> USE <2>2 DEF ZInv, ZTypeOK, Over
  <2>3. CASE SpawnFails(g) BY <2>3, Zenon DEF SpawnFails
  <2>4. CASE GateCancelled(g) BY <2>4, Zenon DEF GateCancelled
  <2>5. CASE Receive(g) BY <2>5, Zenon DEF Receive
  <2>6. CASE Join(g) BY <2>6, Zenon DEF Join, JoinOutcome
  <2>7. CASE SupervisorDropped(g) BY <2>7, Zenon DEF SupervisorDropped
  <2>8. CASE StopGeneration(g) BY <2>8, Zenon DEF StopGeneration
  <2>9. CASE LeftoverEnds(g) BY <2>9, Zenon DEF LeftoverEnds
  <2> QED BY <1>2, <2>3, <2>4, <2>5, <2>6, <2>7, <2>8, <2>9, Zenon
<1>3. ASSUME NEW g \in Starting, BodyEnds(g) \/ Leaving(g)
      PROVE  ZInv'
  <2>1. UNCHANGED permits /\ thread[g] # "building"
        /\ \E t \in {"dropping"} \cup Over : thread' = [thread EXCEPT ![g] = t]
    BY <1>3, Zenon DEF BodyEnds, Leaving, SendOutcome, DropPanics, ThreadExits, Over
  <2>2. BuildingSet' = BuildingSet
    BY <2>1, Zenon DEF BuildingSet, ZInv, ZTypeOK, Over
  <2>3. (IsFiniteSet(BuildingSet) /\ permits + Cardinality(BuildingSet) = StartupLimit)'
    BY <2>1, <2>2, SameBuilding, Zenon
  <2> USE <2>3 DEF ZInv, ZTypeOK, Over
  <2>4. CASE BodyEnds(g) BY <2>4, Zenon DEF BodyEnds
  <2>5. CASE SendOutcome(g) BY <2>5, Zenon DEF SendOutcome
  <2>6. CASE DropPanics(g) BY <2>6, Zenon DEF DropPanics
  <2>7. CASE ThreadExits(g) BY <2>7, Zenon DEF ThreadExits
  <2> QED BY <1>3, <2>4, <2>5, <2>6, <2>7, Zenon DEF Leaving
<1> QED BY <1>1, <1>2, <1>3, AdmitStep, BuildingStep, Zenon DEF ZNext

\* The accounts and the order of the end hold in every reachable state.
THEOREM IsolatedInvariance == ZSpec => []ZInv
BY ZInitInv, ZStep, PTL DEF ZSpec

\* No startup permit is lost or invented, however many generations start at the same
\* time and however they fail.
THEOREM PermitsAreAccounted == ZSpec => []PermitsAccounted
<1>1. ZInv => PermitsAccounted
  BY Zenon DEF ZInv, PermitsAccounted, BuildingSet
<1> QED BY <1>1, IsolatedInvariance, PTL

\* A supervisor goes on only when nothing of its generation is left.
THEOREM GenerationsDoNotOverlap == ZSpec => []NoOverlap
<1>1. ZInv => NoOverlap
  BY Zenon DEF ZInv, ZTypeOK, NoOverlap, Over
<1> QED BY <1>1, IsolatedInvariance, PTL

(* ------------------------- shutdown of the runtimes ---------------------- *)

\* The states of the daemon's owner, runtimes, tasks and bodies.
TTypeOK ==
    /\ owner \in {"built", "starting", "up", "failed", "stopping", "advice", "probes", "high",
                  "control", "down", "dropped"}
    /\ lanes \subseteq BodyLanes /\ driver \in {"wait", "duration"}
    /\ runtime \in [Owned -> {"none", "up", "closing", "closed"}]
    /\ orch \in {"none", "start", "stop", "done", "killed"}
    /\ super \in [BodyLanes -> {"none", "running", "ended", "aborted", "killed"}]
    /\ body \in [BodyLanes -> {"none", "running", "aborted", "ended"}]
    /\ probe \in [ProbeLanes -> {"none", "running", "ended", "killed"}]
    /\ advice \in {"none", "running", "ended", "killed"}

\* A body runs under a supervisor, or outlived it.
BodiesGuarded ==
    \A s \in BodyLanes :
        /\ body[s] = "running" => super[s] \in {"running", "aborted", "killed"}
        /\ s \notin lanes => super[s] = "none"

\* While wait() has the daemon: the orchestrations are where the owner waits for them,
\* and a runtime is closed only when nothing that it carries runs any more.
OwnerWaits ==
    owner # "dropped" /\ driver = "wait" =>
        /\ owner \in {"built", "starting"} \/ orch \in {"none", "stop", "done"}
        /\ orch = "stop" => owner = "stopping"
        /\ orch = "killed" => FALSE
        /\ runtime["control"] = "none" => orch = "none"
        /\ owner = "built" => orch = "none"
        /\ runtime["high"] \in {"closing", "closed"} => owner \in {"high", "control", "down"}
        /\ runtime["control"] \in {"closing", "closed"} => owner \in {"control", "down"}
        /\ owner \in {"advice", "probes", "high", "control", "down"} =>
             \A s \in BodyLanes : super[s] # "running"
        /\ owner \in {"probes", "high", "control", "down"} => advice # "running"
        /\ owner \in {"high", "control", "down"} => \A l \in ProbeLanes : probe[l] # "running"
        /\ advice # "killed" /\ \A l \in ProbeLanes : probe[l] # "killed"
        /\ \A s \in BodyLanes : super[s] # "killed"

TInv == TTypeOK /\ BodiesGuarded /\ OwnerWaits

\* Nothing runs yet when the daemon is built.
LEMMA TInitInv == TInit => TInv
BY DaemonsAssumption, Zenon
   DEF TInit, TInv, TTypeOK, BodiesGuarded, OwnerWaits, BodyLanes, Owned, ProbeLanes

\* Every step of the owner, the orchestrations, the supervisors and the runtimes keeps it.
LEMMA TStep == TInv /\ [TNext]_tvars => TInv'
<1> SUFFICES ASSUME TInv, [TNext]_tvars PROVE TInv'
  BY Zenon
<1> USE DEF TInv, TTypeOK, BodiesGuarded, OwnerWaits, BodyLanes, Owned, ProbeLanes
<1>1. CASE UNCHANGED tvars BY <1>1 DEF tvars
<1>2. CASE Prepare BY <1>2 DEF Prepare, Probes, NeedsHigh
<1>3. CASE PreflightFails BY <1>3 DEF PreflightFails, NeedsHigh
<1>4. CASE Started BY <1>4, Zenon DEF Started
<1>5. CASE AwaitAdvice BY <1>5, Zenon DEF AwaitAdvice
<1>6. CASE AwaitProbes BY <1>6, Zenon DEF AwaitProbes
<1>7. CASE StopReturns BY <1>7, Zenon DEF StopReturns, Stopper
<1>8. ASSUME NEW r \in Owned, DropRuntime(r) PROVE TInv' BY <1>8, Zenon DEF DropRuntime
<1>9. CASE AfterHigh BY <1>9, Zenon DEF AfterHigh, AfterRuntime
<1>10. CASE AfterControl BY <1>10, Zenon DEF AfterControl, AfterRuntime
<1>11. CASE StartupTaskEnds BY <1>11, Zenon DEF StartupTaskEnds
<1>12. ASSUME NEW s \in lanes, SpawnSupervisor(s) PROVE TInv' BY <1>12 DEF SpawnSupervisor
<1>13. ASSUME NEW s \in lanes, StartBody(s) PROVE TInv' BY <1>13 DEF StartBody
<1>14. ASSUME NEW s \in lanes, SupervisorEnds(s) PROVE TInv' BY <1>14 DEF SupervisorEnds
<1>15. ASSUME NEW s \in lanes, BodyReturns(s) PROVE TInv' BY <1>15 DEF BodyReturns
<1>16. ASSUME NEW s \in lanes, Tell(s) PROVE TInv' BY <1>16 DEF Tell
<1>17. ASSUME NEW s \in lanes, AbortSupervisor(s) PROVE TInv'
  BY <1>17 DEF AbortSupervisor, Abandoned
<1>18. ASSUME NEW l \in ProbeLanes, ProbeEnds(l) PROVE TInv' BY <1>18 DEF ProbeEnds
<1>19. CASE AdviceEnds BY <1>19 DEF AdviceEnds
<1>20. CASE HighBodyDropped BY <1>20 DEF HighBodyDropped
<1>21. ASSUME NEW r \in Owned, Closed(r) PROVE TInv' BY <1>21 DEF Closed, Abandoned
<1>22. CASE CancelDaemon BY <1>22 DEF CancelDaemon
<1>23. CASE BeginStopping BY <1>23, Zenon DEF BeginStopping
<1>24. CASE Let BY <1>24, Zenon DEF Let, DropDaemon
<1> HIDE DEF TInv
<1> QED
  BY <1>1, <1>2, <1>3, <1>4, <1>5, <1>6, <1>7, <1>8, <1>9, <1>10, <1>11, <1>12, <1>13, <1>14,
     <1>15, <1>16, <1>17, <1>18, <1>19, <1>20, <1>21, <1>22, <1>23, <1>24, Zenon
     DEF TNext, OwnerSteps, ServiceSteps

\* For any lanes: a body has a supervisor or outlived it, and while wait() has the daemon a
\* runtime is closed only when nothing that it carries runs any more.
THEOREM RuntimesInvariance == TSpec => []TInv
BY TInitInv, TStep, PTL DEF TSpec

\* When wait() returns nothing of the daemon runs on, and nothing was cut off.
THEOREM WaitIsComplete == TSpec => []WaitLeavesNothing
<1>1. TInv => WaitLeavesNothing
  BY DEF TInv, TTypeOK, BodiesGuarded, OwnerWaits, WaitLeavesNothing, ControlLoops, BodyLanes, ProbeLanes
<1> QED BY <1>1, RuntimesInvariance, PTL

(* ------------------------- progress over the shelf ----------------------- *)

QTypeOK ==
    /\ present \in Registered /\ pokes \in Nat
    /\ status \in [Loops -> StartingPhase \cup {"Healthy", "ShuttingDown", "Terminated"}]
    /\ arm \in [Loops -> StartingPhase \cup {"off", "begin", "top", "sleep", "Healthy", "NeedReload",
                                             "ShuttingDown", "Terminated"}]
    /\ exit \in [Loops -> {"none", "ok", "panic", "fatal"}]
    /\ reloading \in [Loops -> BOOLEAN] /\ stopped \in [Loops -> BOOLEAN] /\ wiped \in [Loops -> BOOLEAN]
    /\ count \in [Loops -> Nat] /\ reached \in [Loops -> Nat]
    /\ shelfAt \in [Loops -> SUBSET [type : {"u32", "String"}, n : Nat]]
    /\ \A s \in Loops : \A v, w \in shelfAt[s] : v = w

\* What unshelve() of s would return, the default for an empty bucket included.
Shelved(s, n) == shelfAt[s] = {Number(n)} \/ (shelfAt[s] = {} /\ n = 0)

\* Where the status plane, the body and the outcome of a service can be together.
PlaneAndBody(s) ==
    /\ exit[s] # "none" => arm[s] = "off"
    /\ status[s] = "ShuttingDown" => stopped[s]
    /\ status[s] = "Terminated" /\ s \in Shelving => stopped[s]
    /\ arm[s] \in {"ShuttingDown", "Terminated"} /\ s \in Shelving => stopped[s]
    /\ arm[s] \in {"begin"} \cup StartingPhase => status[s] # "Healthy"
    /\ s \in Shelving => exit[s] # "fatal"
    /\ s \notin Shelving => count[s] = 0 /\ reached[s] = 0

\* reloading_counter_service: the count is on the shelf between its bodies, in the
\* local from the first line of a body on.  It never panics.
CounterInv ==
    "counter" \in Loops =>
        /\ exit["counter"] # "panic" /\ status["counter"] # "Recovering" /\ arm["counter"] # "Recovering"
        /\ pokes = 0 =>
             /\ arm["counter"] = "off" /\ ~stopped["counter"] => Shelved("counter", reached["counter"])
             /\ arm["counter"] = "begin" => Shelved("counter", reached["counter"])
             /\ arm["counter"] \notin {"off", "begin"} => count["counter"] = reached["counter"]

\* recovery_service: the count is on the shelf until an arm of the starting phase
\* has run, in the local from then on, and in both while it sleeps.
RecoveryInv ==
    "recovery" \in Loops /\ pokes = 0 /\ ~wiped["recovery"] =>
        /\ arm["recovery"] = "off" /\ ~stopped["recovery"] => Shelved("recovery", reached["recovery"])
        /\ arm["recovery"] \in {"begin", "top"} \cup StartingPhase /\ status["recovery"] \in StartingPhase =>
             Shelved("recovery", reached["recovery"])
        /\ arm["recovery"] \in {"top", "NeedReload"} /\ status["recovery"] = "Healthy" =>
             count["recovery"] = reached["recovery"]
        /\ arm["recovery"] \in {"Healthy", "sleep"} => count["recovery"] = reached["recovery"]
        /\ arm["recovery"] = "sleep" => shelfAt["recovery"] = {Number(reached["recovery"])}

QInv == QTypeOK /\ (\A s \in Loops : PlaneAndBody(s)) /\ CounterInv /\ RecoveryInv

\* The shelf is empty before the first bodies run.
LEMMA QInitInv == QInit => QInv
BY DEF QInit, QInv, QTypeOK, PlaneAndBody, CounterInv, RecoveryInv, Shelved, StartingPhase, Shelving


\* unshelve() returns what was shelved, or the default, and empties the bucket.
LEMMA UnshelveReturns ==
    ASSUME QTypeOK, NEW s \in Loops, Unshelve(s)
    PROVE  /\ count' \in [Loops -> Nat]
           /\ \A t \in Loops : t # s => count'[t] = count[t] /\ shelfAt'[t] = shelfAt[t]
           /\ shelfAt' \in [Loops -> SUBSET [type : {"u32", "String"}, n : Nat]]
           /\ shelfAt'[s] = {}
           /\ \A n \in Nat : Shelved(s, n) => count'[s] = n
<1> DEFINE v == CHOOSE v \in shelfAt[s] : TRUE
<1>1. shelfAt[s] # {} => v \in shelfAt[s]
  BY Zenon
<1>2. count' = [count EXCEPT ![s] = IF \E w \in shelfAt[s] : w.type = "u32" THEN v.n ELSE 0]
  BY Zenon DEF Unshelve, Bucket
<1> HIDE DEF v
<1>3. \A n \in Nat : Number(n).type = "u32" /\ Number(n).n = n
  BY Zenon DEF Number
<1>4. ASSUME NEW n \in Nat, shelfAt[s] = {Number(n)} PROVE count'[s] = n
  BY <1>1, <1>2, <1>3, <1>4 DEF QTypeOK
<1>5. ASSUME shelfAt[s] = {} PROVE count'[s] = 0
  BY <1>2, <1>5, Zenon DEF QTypeOK
<1> QED
  BY <1>1, <1>2, <1>4, <1>5 DEF QTypeOK, Unshelve, Bucket, Shelved

\* Bodies, panics, reloads and pokes at the shelf keep the invariant.
LEMMA QStep == QInv /\ [QNext]_qvars => QInv'
<1> SUFFICES ASSUME QInv, [QNext]_qvars PROVE QInv'
  BY Zenon
<1> USE DEF QInv, QTypeOK, PlaneAndBody, CounterInv, RecoveryInv, Shelved, StartingPhase, Shelving
<1>1. CASE UNCHANGED qvars BY <1>1 DEF qvars
<1>2. ASSUME UNCHANGED present, NEW s \in Loops, StartGenerationOf(s) PROVE QInv'
  BY <1>2 DEF StartGenerationOf
<1>3. ASSUME UNCHANGED present, NEW s \in Loops, Outcome(s) PROVE QInv'
  BY <1>3 DEF Outcome, OutcomeStatus
<1>4. ASSUME UNCHANGED present, NEW s \in Loops, Enter(s) PROVE QInv'
  <2>1. CASE s = "counter" BY <1>4, <2>1, UnshelveReturns DEF Enter
  <2>2. CASE s # "counter" BY <1>4, <2>2 DEF Enter
  <2> QED BY <2>1, <2>2, Zenon
<1>5. ASSUME UNCHANGED present, NEW s \in Loops, Look(s) PROVE QInv'
  BY <1>5 DEF Look, StateOf
<1>6. ASSUME UNCHANGED present, NEW s \in Loops, InitializingArm(s) PROVE QInv'
  BY <1>6 DEF InitializingArm, Done, DoneFrom
<1>7. ASSUME UNCHANGED present, NEW s \in Loops, RestoringArm(s) PROVE QInv'
  <2>1. CASE s = "recovery"
    BY <1>7, <2>1, UnshelveReturns DEF RestoringArm, Done, DoneFrom, StartArms, AnyStart
  <2>2. CASE s # "recovery"
    BY <1>7, <2>2 DEF RestoringArm, Done, DoneFrom, StartArms, AnyStart, WarmStart, ColdStart
  <2> QED BY <2>1, <2>2, Zenon
<1>8. ASSUME UNCHANGED present, NEW s \in Loops, HealthyArm(s) PROVE QInv'
  BY <1>8 DEF HealthyArm, Shelve, Bucket, Number
<1>9. ASSUME UNCHANGED present, NEW s \in Loops, Wake(s) PROVE QInv'
  BY <1>9 DEF Wake
<1>10. ASSUME UNCHANGED present, NEW s \in Loops, ReloadArm(s) PROVE QInv'
  <2>1. CASE s = "recovery"
    <3>1. wiped' \in [Loops -> BOOLEAN] /\ (~wiped'[s] => ~wiped[s] /\ status[s] \notin StartingPhase)
      BY <1>10, <2>1, Zenon DEF ReloadArm
    <3>2. shelfAt' = [shelfAt EXCEPT ![s] = {Number(count[s])}]
      BY <1>10, <2>1, Zenon DEF ReloadArm, Shelve, Bucket
    <3> QED BY <1>10, <2>1, <3>1, <3>2 DEF ReloadArm, Number, Done, DoneFrom
  <2>2. CASE s = "counter" BY <1>10, <2>2 DEF ReloadArm, Shelve, Bucket, Number, Done, DoneFrom
  <2>3. CASE s \notin Shelving BY <1>10, <2>3 DEF ReloadArm, Done, DoneFrom
  <2> QED BY <2>1, <2>2, <2>3, Zenon
<1>11. ASSUME UNCHANGED present, NEW s \in Loops, BreakArm(s) PROVE QInv'
  BY <1>11 DEF BreakArm, StartArms, AnyStart, WarmStart, ColdStart, ReloadArms
<1>12. ASSUME UNCHANGED present, NEW s \in Loops, SyncBody(s) PROVE QInv'
  BY <1>12 DEF SyncBody, Done, DoneFrom
<1>13. ASSUME UNCHANGED present, NEW s \in Loops, ReloadRequested(s) PROVE QInv'
  BY <1>13 DEF ReloadRequested
<1>14. ASSUME UNCHANGED present, NEW s \in Loops, StopToken(s) PROVE QInv'
  BY <1>14 DEF StopToken
<1>15. ASSUME UNCHANGED present, NEW s \in Loops, StopStatus(s) PROVE QInv'
  BY <1>15 DEF StopStatus
<1>16. ASSUME UNCHANGED present, NEW s \in Loops, Panic(s) PROVE QInv'
  BY <1>16 DEF Panic
<1>17. ASSUME UNCHANGED present, NEW s \in Loops, SetShelf(s) PROVE QInv'
  BY <1>17, ShelfAssumption DEF SetShelf, Number, Text
<1>18. ASSUME UNCHANGED present, NEW s \in Loops, FatalExit(s) PROVE QInv'
  BY <1>18 DEF FatalExit
<1>19. \A s \in present : s \in Loops
  BY Zenon DEF Loops
<1> HIDE DEF QInv
<1> QED
  BY <1>1, <1>2, <1>3, <1>4, <1>5, <1>6, <1>7, <1>8, <1>9, <1>10, <1>11, <1>12, <1>13, <1>14,
     <1>15, <1>16, <1>17, <1>18, <1>19, Zenon DEF QNext, BodySteps

\* However often the services are reloaded, the count is on the shelf or in the body's local,
\* unless a test poked at the shelf or a body that had not started shelved its own.
THEOREM ShelfInvariance == QSpec => []QInv
BY QInitInv, QStep, PTL DEF QSpec

\* A body about to count stands where the last generation stopped.
THEOREM ProgressSurvives == QSpec => []ProgressContinues
<1>1. QInv => ProgressContinues
  BY Zenon DEF QInv, QTypeOK, PlaneAndBody, CounterInv, RecoveryInv, Shelving, ProgressContinues
<1> QED BY <1>1, ShelfInvariance, PTL

(* ------------------------ the log queue's readers ------------------------- *)

\* A queue that keeps every event from its first on, each numbered after the one before:
\* n application events are published, c is the capacity.
Events == [n : Nat, own : BOOLEAN]

Ends(q, n) == (Len(q) = 0 => n = 0) /\ (Len(q) > 0 => q[Len(q)].n = n)
Rises(q) == \A i, j \in 1 .. Len(q) : i < j => q[i].n <= q[j].n /\ (~q[j].own => q[i].n < q[j].n)
Follows(q) ==
  /\ \A i \in 1 .. Len(q) : ~q[i].own => q[i].n > 0
  /\ \A i \in 1 .. Len(q) - 1 : q[i + 1].n = IF q[i + 1].own THEN q[i].n ELSE q[i].n + 1
Holds(q, n) ==
  \A m \in 1 .. n : Len(q) > 0 /\ q[1].n < m => \E i \in 1 .. Len(q) : q[i].n = m /\ ~q[i].own

Queue(q, n, c) ==
  /\ q \in Seq(Events) /\ n \in Nat /\ c \in Nat \ {0} /\ Len(q) <= c
  /\ Ends(q, n) /\ Rises(q) /\ Follows(q) /\ Holds(q, n)

\* A cursor b behind the tail, and the application events it is past.
Cursor(q, b, c) == b \in 0 .. c + 1 /\ (b <= c => b <= Len(q)) /\ (b > c => Len(q) = c)

PassedAt(q, b, n, c) ==
  LET e == IF b <= c THEN q[Len(q) - b + 1] ELSE q[1]
  IN  IF b = 0 THEN n ELSE IF e.own THEN e.n ELSE e.n - 1

\* The types of a queue and of its events.
LEMMA QueueTypes ==
  ASSUME NEW q, NEW n, NEW c, Queue(q, n, c)
  PROVE  /\ q \in Seq(Events) /\ n \in Nat /\ c \in Nat \ {0} /\ Len(q) \in 0 .. c
         /\ DOMAIN q = 1 .. Len(q)
         /\ \A i \in 1 .. Len(q) : q[i] \in Events /\ q[i].n \in Nat /\ q[i].own \in BOOLEAN
<1>1. q \in Seq(Events) /\ n \in Nat /\ c \in Nat \ {0} /\ Len(q) <= c
  BY Zenon DEF Queue
<1>2. Len(q) \in 0 .. c /\ DOMAIN q = 1 .. Len(q) /\ \A i \in 1 .. Len(q) : q[i] \in Events
  BY <1>1
<1>3. \A e \in Events : e.n \in Nat /\ e.own \in BOOLEAN
  BY Zenon DEF Events
<1> QED BY <1>1, <1>2, <1>3, Zenon

\* The queue after a send: the elements of the old one, shifted by k when it was full.
Slides(q, t, e, k) ==
  /\ k \in {0, 1} /\ Len(t) = Len(q) + 1 - k
  /\ \A i \in 1 .. Len(q) - k : t[i] = q[i + k]
  /\ t[Len(t)] = e

\* Send: the queue slides by one when it is full.
LEMMA SendSlides ==
  ASSUME NEW q \in Seq(Events), NEW e \in Events, NEW c \in Nat \ {0}, Len(q) <= c
  PROVE  LET t == Append(IF Len(q) = c THEN Tail(q) ELSE q, e)
         IN  /\ t \in Seq(Events) /\ Len(t) \in 1 .. c
             /\ Slides(q, t, e, IF Len(q) = c THEN 1 ELSE 0)
<1> DEFINE t == Append(IF Len(q) = c THEN Tail(q) ELSE q, e)
<1>1. CASE Len(q) = c
  <2>1. t = Append(Tail(q), e)
    BY <1>1, Zenon
  <2> HIDE DEF t
  <2>2. Len(q) > 0 /\ Len(q) \in Nat
    BY <1>1
  <2>3. Tail(q) \in Seq(Events) /\ Len(Tail(q)) = Len(q) - 1 /\ \A i \in 1 .. Len(q) - 1 : Tail(q)[i] = q[i + 1]
    BY <2>2
  <2> DEFINE u == Tail(q)
  <2> HIDE DEF u
  <2>4. u \in Seq(Events) /\ Len(u) = Len(q) - 1 /\ \A i \in 1 .. Len(q) - 1 : u[i] = q[i + 1]
    BY <2>3, Zenon DEF u
  <2>5. t = Append(u, e)
    BY <2>1, Zenon DEF u
  <2>6. t \in Seq(Events) /\ Len(t) = Len(q) /\ t[Len(t)] = e /\ \A i \in 1 .. Len(q) - 1 : t[i] = u[i]
    BY <2>2, <2>4, <2>5
  <2>7. \A i \in 1 .. Len(q) - 1 : t[i] = q[i + 1]
    BY <2>4, <2>6, Zenon
  <2>8. Slides(q, t, e, 1)
    BY <2>2, <2>6, <2>7 DEF Slides
  <2> QED BY <1>1, <2>2, <2>6, <2>8 DEF t
<1>2. CASE Len(q) # c
  <2>1. t = Append(q, e)
    BY <1>2, Zenon
  <2> HIDE DEF t
  <2>2. t \in Seq(Events) /\ Len(t) = Len(q) + 1 /\ t[Len(t)] = e /\ \A i \in 1 .. Len(q) : t[i] = q[i]
    BY <2>1
  <2>3. Len(t) \in 1 .. c
    BY <1>2, <2>2
  <2>4. Slides(q, t, e, 0)
    BY <2>2 DEF Slides
  <2> QED BY <1>2, <2>2, <2>3, <2>4, Zenon DEF t
<1> QED BY <1>1, <1>2, Zenon

\* t is q after e was sent.
Sent(q, n, c, e, t, k) ==
  /\ Queue(q, n, c) /\ e \in Events /\ (e.n = IF e.own THEN n ELSE n + 1)
  /\ t \in Seq(Events) /\ Len(t) \in 1 .. c /\ Slides(q, t, e, k) /\ (k = IF Len(q) = c THEN 1 ELSE 0)

\* A send keeps the queue in order.
LEMMA SendKeepsQueue ==
  ASSUME NEW q, NEW n, NEW c, NEW e, NEW t, NEW k, Sent(q, n, c, e, t, k)
  PROVE  Queue(t, e.n, c)
<1>s. /\ Queue(q, n, c) /\ e \in Events /\ (e.n = IF e.own THEN n ELSE n + 1)
      /\ t \in Seq(Events) /\ Len(t) \in 1 .. c /\ Slides(q, t, e, k)
  BY Zenon DEF Sent
<1> USE <1>s
<1>0. /\ q \in Seq(Events) /\ n \in Nat /\ c \in Nat \ {0} /\ Len(q) \in 0 .. c /\ Len(t) \in Nat
      /\ \A i \in 1 .. Len(q) : q[i].n \in Nat /\ q[i].own \in BOOLEAN
      /\ e.n \in Nat /\ e.own \in BOOLEAN
      /\ k \in {0, 1} /\ Len(t) = Len(q) + 1 - k
  <2>1. e.n \in Nat /\ e.own \in BOOLEAN /\ Len(t) \in Nat
    BY DEF Events
  <2>2. k \in {0, 1} /\ Len(t) = Len(q) + 1 - k
    BY Zenon DEF Slides
  <2> QED BY <2>1, <2>2, QueueTypes, Zenon
<1>1. \A i \in 1 .. Len(t) - 1 : i + k \in 1 .. Len(q) /\ t[i] = q[i + k]
  BY <1>0 DEF Slides
<1>2. t[Len(t)] = e
  BY Zenon DEF Slides
<1>3. \A i \in 1 .. Len(q) : q[i].n <= n
  BY <1>0 DEF Queue, Ends, Rises
<1>4. Ends(t, e.n)
  BY <1>0, <1>2 DEF Ends
<1>5. Rises(t)
  <2> SUFFICES ASSUME NEW i \in 1 .. Len(t), NEW j \in 1 .. Len(t), i < j
               PROVE  t[i].n <= t[j].n /\ (~t[j].own => t[i].n < t[j].n)
    BY Zenon DEF Rises
  <2>1. i \in 1 .. Len(t) - 1 /\ i + k \in 1 .. Len(q) /\ t[i] = q[i + k]
    BY <1>0, <1>1
  <2>2. CASE j = Len(t)
    <3>1. t[j] = e /\ t[i].n \in Nat /\ t[i].n <= n
      BY <1>0, <1>2, <1>3, <2>1, <2>2, Zenon
    <3> QED BY <1>0, <3>1
  <2>3. CASE j # Len(t)
    <3>0. j \in 1 .. Len(t) - 1
      BY <1>0, <2>3
    <3>1. j + k \in 1 .. Len(q) /\ t[j] = q[j + k] /\ i + k < j + k
      <4>1. j + k \in 1 .. Len(q) /\ t[j] = q[j + k]
        BY <1>1, <3>0, Zenon
      <4>2. i + k < j + k
        BY <1>0
      <4> QED BY <4>1, <4>2, Zenon
    <3> QED BY <2>1, <3>1, Zenon DEF Queue, Rises
  <2> QED BY <2>2, <2>3, Zenon
<1>6. Follows(t)
  <2>1. ASSUME NEW i \in 1 .. Len(t), ~t[i].own PROVE t[i].n > 0
    <3>1. CASE i = Len(t)
      BY <1>0, <1>2, <2>1, <3>1
    <3>2. CASE i # Len(t)
      <4>1. i + k \in 1 .. Len(q) /\ t[i] = q[i + k]
        BY <1>0, <1>1, <3>2
      <4> QED BY <2>1, <4>1, Zenon DEF Queue, Follows
    <3> QED BY <3>1, <3>2, Zenon
  <2>2. ASSUME NEW i \in 1 .. Len(t) - 1
        PROVE  t[i + 1].n = IF t[i + 1].own THEN t[i].n ELSE t[i].n + 1
    <3>1. i + k \in 1 .. Len(q) /\ t[i] = q[i + k]
      BY <1>1, Zenon
    <3>2. CASE i + 1 = Len(t)
      <4>1. i + k = Len(q)
        BY <1>0, <3>2
      <4>2. q[Len(q)].n = n
        BY <1>0, <3>1 DEF Queue, Ends
      <4> QED BY <1>2, <3>1, <3>2, <4>1, <4>2, Zenon
    <3>3. CASE i + 1 # Len(t)
      <4>1. i + k \in 1 .. Len(q) - 1 /\ t[i + 1] = q[(i + k) + 1]
        <5>1. i + 1 \in 1 .. Len(t) - 1 /\ (i + 1) + k = (i + k) + 1
          BY <1>0, <3>3
        <5>2. (i + 1) + k \in 1 .. Len(q) /\ t[i + 1] = q[(i + 1) + k]
          BY <1>1, <5>1, Zenon
        <5> QED BY <1>0, <3>1, <5>1, <5>2
      <4> QED BY <3>1, <4>1, Zenon DEF Queue, Follows
    <3> QED BY <3>2, <3>3, Zenon
  <2> QED BY <2>1, <2>2, Zenon DEF Follows
<1>7. Holds(t, e.n)
  <2> SUFFICES ASSUME NEW m \in 1 .. e.n, Len(t) > 0, t[1].n < m
               PROVE  \E i \in 1 .. Len(t) : t[i].n = m /\ ~t[i].own
    BY Zenon DEF Holds
  <2>1. CASE m > n
    <3>1. e.n = m /\ ~e.own
      BY <1>0, <2>1
    <3>2. Len(t) \in 1 .. Len(t)
      BY <1>0
    <3> QED BY <1>2, <3>1, <3>2, Zenon
  <2>2. CASE m <= n
    <3>1. m \in 1 .. n
      BY <1>0, <2>2
    <3>2. Len(q) > 0
      BY <1>0, <3>1 DEF Queue, Ends
    <3>3. CASE Len(t) = 1
      <4>1. t[1] = e
        BY <1>2, <3>3, Zenon
      <4> QED BY <1>0, <3>1, <4>1
    <3>4. CASE Len(t) # 1
      <4>1. 1 + k \in 1 .. Len(q) /\ t[1] = q[1 + k]
        BY <1>0, <1>1, <3>4
      <4>2. q[1].n <= q[1 + k].n
        <5>1. CASE k = 0
          BY <1>0, <3>2, <5>1
        <5>2. CASE k = 1
          BY <1>0, <3>2, <4>1, <5>2 DEF Queue, Rises
        <5> QED BY <1>0, <5>1, <5>2, Zenon
      <4>3. q[1].n < m
        <5>1. q[1 + k].n < m
          BY <4>1, Zenon
        <5>2. q[1].n \in Nat /\ q[1 + k].n \in Nat /\ m \in Nat
          BY <1>0, <3>1, <3>2, <4>1
        <5> QED BY <4>2, <5>1, <5>2
      <4>4. PICK i \in 1 .. Len(q) : q[i].n = m /\ ~q[i].own
        BY <3>1, <3>2, <4>3, Zenon DEF Queue, Holds
      <4>5. i > k
        <5>1. i # 1
          BY <3>1, <4>3, <4>4
        <5> QED BY <1>0, <5>1
      <4>6. i - k \in 1 .. Len(t) - 1 /\ (i - k) + k = i /\ i - k \in 1 .. Len(t)
        BY <1>0, <4>5
      <4>7. t[i - k] = q[i]
        BY <1>1, <4>6, Zenon
      <4> QED BY <4>4, <4>6, <4>7, Zenon
    <3> QED BY <3>3, <3>4, Zenon
  <2> QED BY <1>0, <2>1, <2>2
<1> QED BY <1>0, <1>4, <1>5, <1>6, <1>7 DEF Queue

\* A cursor after a send.
Further(b, c) == IF b <= c THEN b + 1 ELSE b

\* A cursor b of q, and the one it becomes in t: before the same event, or that is gone.
CursorKept(q, n, t, m, b, c) ==
  LET d == Further(b, c)
  IN  /\ Cursor(t, d, c) /\ Cursor(t, b, c)
      /\ PassedAt(q, b, n, c) <= PassedAt(t, d, m, c)
      /\ d <= c => b <= c /\ PassedAt(t, d, m, c) = PassedAt(q, b, n, c)

\* A send leaves a cursor where it was, one further behind, unless its event is gone.
LEMMA SendKeepsCursor ==
  ASSUME NEW q, NEW n, NEW c, NEW e, NEW t, NEW k, Sent(q, n, c, e, t, k), NEW b, Cursor(q, b, c)
  PROVE  CursorKept(q, n, t, e.n, b, c)
<1>s. /\ Queue(q, n, c) /\ e \in Events /\ (e.n = IF e.own THEN n ELSE n + 1)
      /\ t \in Seq(Events) /\ Len(t) \in 1 .. c /\ Slides(q, t, e, k) /\ (k = IF Len(q) = c THEN 1 ELSE 0)
  BY Zenon DEF Sent
<1> USE <1>s
<1>0. /\ q \in Seq(Events) /\ n \in Nat /\ c \in Nat \ {0} /\ Len(q) \in 0 .. c /\ Len(t) \in Nat
      /\ \A i \in 1 .. Len(q) : q[i].n \in Nat /\ q[i].own \in BOOLEAN
      /\ e.n \in Nat /\ e.own \in BOOLEAN
      /\ k \in {0, 1} /\ Len(t) = Len(q) + 1 - k
  <2>1. e.n \in Nat /\ e.own \in BOOLEAN /\ Len(t) \in Nat
    BY DEF Events
  <2>2. k \in {0, 1} /\ Len(t) = Len(q) + 1 - k
    BY Zenon DEF Slides
  <2> QED BY <2>1, <2>2, QueueTypes, Zenon
<1>00. b \in 0 .. c + 1 /\ (b <= c => b <= Len(q)) /\ (b > c => Len(q) = c)
  BY Zenon DEF Cursor
<1>1. \A i \in 1 .. Len(t) - 1 : i + k \in 1 .. Len(q) /\ t[i] = q[i + k]
  BY <1>0 DEF Slides
<1>2. t[Len(t)] = e
  BY Zenon DEF Slides
<1>3. Cursor(t, b, c)
  BY <1>0, <1>00 DEF Cursor
<1>4. CASE b = 0
  <2>1. b + 1 = 1 /\ 1 <= c /\ Len(t) - 1 + 1 = Len(t)
    BY <1>0, <1>4
  <2>2. Cursor(t, 1, c)
    BY <1>0 DEF Cursor
  <2>3. PassedAt(t, 1, e.n, c) = n
    BY <1>0, <1>2, <2>1 DEF PassedAt
  <2>4. PassedAt(q, b, n, c) = n
    BY <1>4, Zenon DEF PassedAt
  <2>5. Further(b, c) = 1
    <3>1. 0 <= c /\ 0 + 1 = 1
      BY <1>0
    <3> QED BY <1>4, <3>1, Zenon DEF Further
  <2>6. n <= n /\ b <= c
    BY <1>0, <1>4
  <2> QED BY <1>3, <2>2, <2>3, <2>4, <2>5, <2>6, Zenon DEF CursorKept
<1>5. CASE b \in 1 .. c /\ b + 1 <= c
  <2>1. Cursor(t, b + 1, c)
    BY <1>0, <1>00, <1>5 DEF Cursor
  <2>2. t[Len(t) - (b + 1) + 1] = q[Len(q) - b + 1]
    <3>0. b + 1 <= Len(t)
      <4>1. CASE Len(q) = c
        BY <1>0, <1>5, <4>1
      <4>2. CASE Len(q) # c
        BY <1>0, <1>00, <1>5, <4>2
      <4> QED BY <4>1, <4>2, Zenon
    <3> DEFINE i == Len(t) - (b + 1) + 1
    <3>1. i \in 1 .. Len(t) - 1 /\ i + k = Len(q) - b + 1
      BY <1>0, <1>5, <3>0
    <3>2. t[i] = q[i + k]
      BY <1>1, <3>1, Zenon
    <3> HIDE DEF i
    <3>3. t[i] = q[Len(q) - b + 1]
      BY <3>1, <3>2, Zenon
    <3> QED BY <3>3, Zenon DEF i
  <2>3. b + 1 # 0 /\ b # 0 /\ b <= c
    BY <1>0, <1>5
  <2>4. PassedAt(t, b + 1, e.n, c) = PassedAt(q, b, n, c)
    BY <1>5, <2>2, <2>3, Zenon DEF PassedAt
  <2>5. Len(q) - b + 1 \in 1 .. Len(q)
    BY <1>0, <1>00, <1>5
  <2>6. PassedAt(q, b, n, c) \in Int
    BY <1>0, <2>3, <2>5 DEF PassedAt
  <2>7. Further(b, c) = b + 1 /\ PassedAt(q, b, n, c) <= PassedAt(q, b, n, c)
    BY <2>3, <2>6 DEF Further
  <2> QED BY <1>3, <2>1, <2>3, <2>4, <2>7, Zenon DEF CursorKept
<1>6. CASE b \in {c, c + 1}
  <2>1. Further(b, c) = c + 1 /\ Len(q) = c /\ Len(t) = c /\ k = 1 /\ b # 0 /\ c + 1 # 0 /\ ~(c + 1 <= c)
    BY <1>0, <1>00, <1>6 DEF Further
  <2>2. Cursor(t, c + 1, c)
    BY <1>0, <2>1 DEF Cursor
  <2>3. PassedAt(q, b, n, c) = IF q[1].own THEN q[1].n ELSE q[1].n - 1
    <3>1. b <= c => Len(q) - b + 1 = 1
      BY <1>0, <1>6, <2>1
    <3> QED BY <2>1, <3>1, Zenon DEF PassedAt
  <2>4. PassedAt(t, c + 1, e.n, c) = IF t[1].own THEN t[1].n ELSE t[1].n - 1
    BY <2>1, Zenon DEF PassedAt
  <2>5. q[1].n \in Nat /\ t[1].n \in Nat /\ (t[1].n = IF t[1].own THEN q[1].n ELSE q[1].n + 1)
    <3>1. CASE c = 1
      <4>1. t[1] = e /\ q[1].n = n /\ 1 \in 1 .. Len(q)
        BY <1>0, <1>2, <2>1, <3>1 DEF Queue, Ends
      <4> QED BY <1>0, <4>1, Zenon
    <3>2. CASE c # 1
      <4>1. t[1] = q[1 + 1] /\ 1 \in 1 .. Len(q) - 1 /\ 1 \in 1 .. Len(q) /\ 1 + 1 \in 1 .. Len(q)
        BY <1>0, <1>1, <2>1, <3>2
      <4> QED BY <1>0, <4>1, Zenon DEF Queue, Follows
    <3> QED BY <3>1, <3>2, Zenon
  <2>6. PassedAt(q, b, n, c) <= PassedAt(t, c + 1, e.n, c)
    BY <2>3, <2>4, <2>5
  <2> QED BY <1>0, <1>3, <2>1, <2>2, <2>6, Zenon DEF CursorKept
<1>7. b = 0 \/ (b \in 1 .. c /\ b + 1 <= c) \/ b \in {c, c + 1}
  BY <1>0, <1>00
<1> QED BY <1>4, <1>5, <1>6, <1>7, Zenon

\* A receive moves the cursor past the event it returns.
Received(q, n, c, b) ==
  LET e == q[Len(q) - b + 1]
  IN  /\ Cursor(q, b - 1, c) /\ e \in Events
      /\ PassedAt(q, b, n, c) \in Nat
      /\ PassedAt(q, b - 1, n, c) = IF e.own THEN PassedAt(q, b, n, c) ELSE e.n
      /\ ~e.own => e.n = PassedAt(q, b, n, c) + 1

\* What a receive does to a cursor inside the queue.
LEMMA RecvMoves ==
  ASSUME NEW q, NEW n, NEW c, Queue(q, n, c), NEW b \in 1 .. c, Cursor(q, b, c)
  PROVE  Received(q, n, c, b)
<1>0. /\ q \in Seq(Events) /\ n \in Nat /\ c \in Nat \ {0} /\ Len(q) \in 0 .. c
      /\ \A i \in 1 .. Len(q) : q[i] \in Events /\ q[i].n \in Nat /\ q[i].own \in BOOLEAN
      /\ b \in 1 .. Len(q)
  <2>1. b \in 1 .. Len(q)
    BY QueueTypes DEF Cursor
  <2> QED BY <2>1, QueueTypes, Zenon
<1> DEFINE i == Len(q) - b + 1
           e == q[i]
<1>1. i \in 1 .. Len(q) /\ b # 0 /\ b <= c
  BY <1>0
<1>2. Cursor(q, b - 1, c)
  BY <1>0 DEF Cursor
<1>3. PassedAt(q, b, n, c) = IF e.own THEN e.n ELSE e.n - 1
  BY <1>1, Zenon DEF PassedAt
<1>4. e \in Events /\ e.n \in Nat /\ e.own \in BOOLEAN /\ (~e.own => e.n > 0)
  BY <1>0, <1>1, Zenon DEF Queue, Follows
<1>5. PassedAt(q, b - 1, n, c) = e.n
  <2>1. CASE b = 1
    <3>1. i = Len(q) /\ Len(q) > 0 /\ b - 1 = 0
      BY <1>0, <2>1
    <3> QED BY <3>1, Zenon DEF PassedAt, Queue, Ends
  <2>2. CASE b # 1
    <3>1. i \in 1 .. Len(q) - 1 /\ b - 1 # 0 /\ b - 1 <= c /\ Len(q) - (b - 1) + 1 = i + 1
          /\ i + 1 \in 1 .. Len(q)
      BY <1>0, <2>2
    <3>2. PassedAt(q, b - 1, n, c) = IF q[i + 1].own THEN q[i + 1].n ELSE q[i + 1].n - 1
      BY <3>1, Zenon DEF PassedAt
    <3>3. q[i + 1].n = IF q[i + 1].own THEN e.n ELSE e.n + 1
      BY <3>1, Zenon DEF Queue, Follows
    <3> HIDE DEF i
    <3> QED BY <1>4, <3>2, <3>3
  <2> QED BY <2>1, <2>2, Zenon
<1> HIDE DEF e
<1>6. PassedAt(q, b, n, c) \in Nat /\ (~e.own => e.n = PassedAt(q, b, n, c) + 1)
  BY <1>3, <1>4
<1> QED BY <1>2, <1>3, <1>4, <1>5, <1>6, Zenon DEF e, Received

\* No event is numbered beyond the last one, and the application's are numbered from 1.
LEMMA NoneBeyond ==
  ASSUME NEW q, NEW n, NEW c, Queue(q, n, c), NEW i \in 1 .. Len(q)
  PROVE  q[i].n <= n /\ (~q[i].own => q[i].n > 0)
<1>1. Len(q) \in Nat /\ n \in Nat
  BY QueueTypes
<1>2. Len(q) \in 1 .. Len(q) /\ Len(q) > 0 /\ (i = Len(q) \/ i < Len(q)) /\ n <= n
  BY <1>1
<1>3. q[Len(q)].n = n /\ (i < Len(q) => q[i].n <= q[Len(q)].n)
  BY <1>2, Zenon DEF Queue, Ends, Rises
<1>4. ~q[i].own => q[i].n > 0
  BY Zenon DEF Queue, Follows
<1> QED BY <1>2, <1>3, <1>4, Zenon

\* What a cursor is past, at any place; a lag moves it to the same count.
LEMMA PassedRange ==
  ASSUME NEW q, NEW n, NEW c, Queue(q, n, c), NEW b, Cursor(q, b, c)
  PROVE  /\ PassedAt(q, b, n, c) \in 0 .. n
         /\ b > c => Cursor(q, c, c) /\ PassedAt(q, c, n, c) = PassedAt(q, b, n, c)
<1>0. /\ q \in Seq(Events) /\ n \in Nat /\ c \in Nat \ {0} /\ Len(q) \in 0 .. c
      /\ \A i \in 1 .. Len(q) : q[i].n \in Nat /\ q[i].own \in BOOLEAN
      /\ b \in 0 .. c + 1 /\ (b <= c => b <= Len(q)) /\ (b > c => Len(q) = c)
  BY QueueTypes, Zenon DEF Cursor
<1>1. \A i \in 1 .. Len(q) : q[i].n <= n /\ (~q[i].own => q[i].n > 0)
  BY NoneBeyond, Zenon
<1>2. CASE b = 0
  BY <1>0, <1>2 DEF PassedAt
<1>3. CASE b \in 1 .. c
  <2>1. Len(q) - b + 1 \in 1 .. Len(q) /\ b # 0 /\ b <= c /\ ~(b > c)
    BY <1>0, <1>3
  <2>2. PassedAt(q, b, n, c) =
          IF q[Len(q) - b + 1].own THEN q[Len(q) - b + 1].n ELSE q[Len(q) - b + 1].n - 1
    BY <2>1, Zenon DEF PassedAt
  <2> QED BY <1>0, <1>1, <2>1, <2>2
<1>4. CASE b = c + 1
  <2>1. 1 \in 1 .. Len(q) /\ Len(q) - c + 1 = 1 /\ b # 0 /\ c # 0 /\ ~(b <= c) /\ c <= c
    BY <1>0, <1>4
  <2>2. /\ PassedAt(q, b, n, c) = IF q[1].own THEN q[1].n ELSE q[1].n - 1
        /\ PassedAt(q, c, n, c) = IF q[1].own THEN q[1].n ELSE q[1].n - 1
    BY <2>1, Zenon DEF PassedAt
  <2>3. Cursor(q, c, c)
    BY <1>0, <1>4 DEF Cursor
  <2> QED BY <1>0, <1>1, <2>1, <2>2, <2>3
<1> QED BY <1>0, <1>2, <1>3, <1>4

\* The application's events from a cursor on are all there.
LEMMA RestIsThere ==
  ASSUME NEW q, NEW n, NEW c, Queue(q, n, c), NEW b, Cursor(q, b, c), b <= c
  PROVE  {q[i].n : i \in {j \in DOMAIN q : j > Len(q) - b /\ ~q[j].own}}
           = PassedAt(q, b, n, c) + 1 .. n
<1>0. /\ q \in Seq(Events) /\ n \in Nat /\ c \in Nat \ {0} /\ Len(q) \in 0 .. c
      /\ \A i \in 1 .. Len(q) : q[i].n \in Nat /\ q[i].own \in BOOLEAN
      /\ b \in 0 .. Len(q) /\ DOMAIN q = 1 .. Len(q)
  <2>1. b \in 0 .. Len(q)
    BY QueueTypes DEF Cursor
  <2> QED BY <2>1, QueueTypes, Zenon
<1>1. \A i \in 1 .. Len(q) : q[i].n <= n
  BY NoneBeyond, Zenon
<1> DEFINE p == PassedAt(q, b, n, c)
           R == {q[i].n : i \in {j \in DOMAIN q : j > Len(q) - b /\ ~q[j].own}}
<1>2. CASE b = 0
  <2>1. p = n
    BY <1>2, Zenon DEF PassedAt
  <2>2. \A j \in DOMAIN q : ~(j > Len(q) - b)
    BY <1>0, <1>2
  <2>3. R = {}
    BY <2>2, Zenon
  <2> HIDE DEF R, p
  <2>4. R = p + 1 .. n
    BY <1>0, <2>1, <2>3
  <2> QED BY <2>4, Zenon DEF R, p
<1>3. CASE b # 0
  <2> DEFINE k == Len(q) - b + 1
  <2>1. k \in 1 .. Len(q) /\ \A j \in 1 .. Len(q) : j > Len(q) - b <=> j >= k
    BY <1>0, <1>3
  <2>2. p = IF q[k].own THEN q[k].n ELSE q[k].n - 1
    BY <1>3, Zenon DEF PassedAt
  <2> HIDE DEF k, p
  <2>3. ASSUME NEW j \in 1 .. Len(q), j >= k, ~q[j].own PROVE q[j].n \in p + 1 .. n
    <3>1. j = k \/ (k < j /\ q[k].n < q[j].n)
      BY <1>0, <2>1, <2>3 DEF Queue, Rises
    <3>2. q[k].n \in Nat /\ q[j].n \in Nat /\ q[j].n <= n
      BY <1>0, <1>1, <2>1, <2>3, Zenon
    <3>3. CASE j = k
      BY <1>0, <2>2, <2>3, <3>2, <3>3
    <3>4. CASE j # k
      BY <1>0, <2>2, <3>1, <3>2, <3>4
    <3> QED BY <3>3, <3>4, Zenon
  <2>4. ASSUME NEW m \in p + 1 .. n PROVE \E j \in 1 .. Len(q) : j >= k /\ ~q[j].own /\ q[j].n = m
    <3>1. q[k].n \in Nat /\ p \in Int /\ q[k].own \in BOOLEAN
      BY <1>0, <2>1, <2>2
    <3>2. CASE ~q[k].own /\ q[k].n = m
      <4>1. k >= k
        BY <1>0, <2>1
      <4> QED BY <2>1, <3>2, <4>1, Zenon
    <3>3. CASE q[k].own \/ q[k].n # m
      <4>1. q[k].n < m /\ m \in Nat /\ m \in 1 .. n
        <5> DEFINE x == q[k].n
        <5>1. x \in Nat /\ n \in Nat /\ (p = x \/ (p = x - 1 /\ x # m))
          BY <1>0, <2>2, <3>1, <3>3, Zenon
        <5> HIDE DEF x
        <5>2. x < m /\ m \in Nat /\ m \in 1 .. n
          BY <5>1
        <5> QED BY <5>2, Zenon DEF x
      <4>2. q[1].n <= q[k].n /\ Len(q) > 0 /\ q[1].n \in Nat
        <5>1. 1 \in 1 .. Len(q) /\ (k = 1 \/ 1 < k)
          BY <1>0, <2>1
        <5>2. q[1].n \in Nat /\ (k = 1 \/ q[1].n <= q[k].n)
          BY <1>0, <2>1, <5>1, Zenon DEF Queue, Rises
        <5> QED BY <1>0, <3>1, <5>1, <5>2
      <4>3. PICK j \in 1 .. Len(q) : q[j].n = m /\ ~q[j].own
        <5>1. q[1].n < m
          BY <3>1, <4>1, <4>2
        <5> QED BY <4>1, <4>2, <5>1, Zenon DEF Queue, Holds
      <4>4. j >= k
        <5>1. CASE j < k
          <6>1. q[j].n <= q[k].n
            BY <2>1, <5>1, Zenon DEF Queue, Rises
          <6> QED BY <3>1, <4>1, <4>3, <6>1
        <5> QED BY <1>0, <2>1, <5>1
      <4> QED BY <4>3, <4>4, Zenon
    <3> QED BY <3>2, <3>3, Zenon
  <2>5. R = p + 1 .. n
    <3>1. R = {q[i].n : i \in {j \in 1 .. Len(q) : j >= k /\ ~q[j].own}}
      <4>1. {j \in DOMAIN q : j > Len(q) - b /\ ~q[j].own} = {j \in 1 .. Len(q) : j >= k /\ ~q[j].own}
        BY <1>0, <2>1, Zenon
      <4> QED BY <4>1, Zenon
    <3> HIDE DEF R
    <3>2. \A m \in R : m \in p + 1 .. n
      BY <2>3, <3>1, Zenon
    <3>3. \A m \in p + 1 .. n : m \in R
      BY <2>4, <3>1, Zenon
    <3> QED BY <3>2, <3>3, Zenon
  <2> QED BY <2>5, Zenon DEF p
<1> QED BY <1>2, <1>3, Zenon

\* Two sequences in a row, and one more at their end.
LEMMA Joined ==
  ASSUME NEW a \in Seq(Nat), NEW b \in Seq(Nat)
  PROVE  /\ a \o b \in Seq(Nat) /\ Len(a \o b) = Len(a) + Len(b) /\ a \o <<>> = a
         /\ \A i \in 1 .. Len(a) : (a \o b)[i] = a[i]
         /\ \A i \in 1 .. Len(b) : (a \o b)[Len(a) + i] = b[i]
  OBVIOUS

\* V is W and one more number.
Longer(V, W, x) ==
  /\ Len(V) = Len(W) + 1 /\ V[Len(W) + 1] = x
  /\ \A i \in 1 .. Len(W) : V[i] = W[i]

\* One more number joins what a sink has.
LEMMA JoinedOne ==
  ASSUME NEW a \in Seq(Nat), NEW b \in Seq(Nat), NEW x \in Nat
  PROVE  /\ b \o <<x>> \in Seq(Nat) /\ a \o b \in Seq(Nat)
         /\ a \o (b \o <<x>>) \in Seq(Nat)
         /\ Longer(a \o (b \o <<x>>), a \o b, x)
<1> DEFINE d == b \o <<x>>
           W == a \o b
           V == a \o d
<1>1. /\ d \in Seq(Nat) /\ Len(d) = Len(b) + 1 /\ d[Len(b) + 1] = x
      /\ \A i \in 1 .. Len(b) : d[i] = b[i]
  OBVIOUS
<1> HIDE DEF d
<1>2. /\ W \in Seq(Nat) /\ Len(W) = Len(a) + Len(b)
      /\ \A i \in 1 .. Len(a) : W[i] = a[i]
      /\ \A i \in 1 .. Len(b) : W[Len(a) + i] = b[i]
  BY Joined, Zenon
<1>3. /\ V \in Seq(Nat) /\ Len(V) = Len(a) + Len(d)
      /\ \A i \in 1 .. Len(a) : V[i] = a[i]
      /\ \A i \in 1 .. Len(d) : V[Len(a) + i] = d[i]
  BY <1>1, Joined, Zenon
<1>4. Len(a) \in Nat /\ Len(b) \in Nat
  OBVIOUS
<1> HIDE DEF W, V
<1>5. Len(V) = Len(W) + 1 /\ V[Len(W) + 1] = x
  <2>1. Len(V) = Len(W) + 1 /\ Len(b) + 1 \in 1 .. Len(d) /\ Len(a) + (Len(b) + 1) = Len(W) + 1
    BY <1>1, <1>2, <1>3, <1>4
  <2>2. V[Len(a) + (Len(b) + 1)] = x
    BY <1>1, <1>3, <2>1, Zenon
  <2>3. V[Len(W) + 1] = x
    BY <2>1, <2>2, Zenon
  <2> QED BY <2>1, <2>3, Zenon
<1>6. ASSUME NEW i \in 1 .. Len(W) PROVE V[i] = W[i]
  <2>1. CASE i \in 1 .. Len(a)
    BY <1>2, <1>3, <2>1, Zenon
  <2>2. CASE i \notin 1 .. Len(a)
    <3> DEFINE j == i - Len(a)
    <3>1. j \in 1 .. Len(b) /\ j \in 1 .. Len(d) /\ Len(a) + j = i
      BY <1>1, <1>2, <1>4, <2>2
    <3> HIDE DEF j
    <3> QED BY <1>1, <1>2, <1>3, <3>1, Zenon
  <2> QED BY <2>1, <2>2, Zenon
<1>7. Longer(V, W, x)
  BY <1>5, <1>6, Zenon DEF Longer
<1> QED BY <1>1, <1>2, <1>3, <1>7, Zenon DEF d, V, W

\* A sink in place w of its loop, with what it has written and what it collects, the
\* numbers it began and ended at, whether it skipped, whether its cursor is within the
\* queue, and the application events the cursor is past.
Active(w) == w \notin {"off", "idle", "returned", "stopped"}
Rising(W) == \A i, j \in DOMAIN W : i < j => W[i] < W[j]
Below(W, p) == \A i \in DOMAIN W : W[i] <= p
Run(s, p) == [i \in 1 .. p - s |-> s + i]

Good(w, wr, bf, s, u, k, in, p) ==
  /\ wr \in Seq(Nat) /\ bf \in Seq(Nat) /\ s \in Nat /\ u \in Nat /\ p \in Nat
  /\ Rising(wr \o bf)
  /\ Active(w) => Below(wr \o bf, p)
  /\ Active(w) /\ ~k /\ in => s <= p /\ wr \o bf = Run(s, p)
  /\ ~Active(w) => bf = <<>>
  /\ w \in {"off", "idle"} => wr = <<>>
  /\ w = "stopped" /\ ~k => wr = Run(s, u)

\* The sink collects nothing; its cursor keeps its place or loses it.
LEMMA GoodStays ==
  ASSUME NEW w, NEW wr, NEW bf, NEW s, NEW u, NEW k, NEW in, NEW p, Good(w, wr, bf, s, u, k, in, p),
         NEW w2, NEW wr2 \in Seq(Nat), NEW bf2 \in Seq(Nat), NEW k2, NEW in2, NEW p2 \in Nat,
         Active(w), Active(w2), wr2 \o bf2 = wr \o bf, p <= p2,
         ~k2 /\ in2 => ~k /\ in /\ p2 = p
  PROVE  Good(w2, wr2, bf2, s, u, k2, in2, p2)
<1>1. w2 \notin {"off", "idle"} /\ w2 # "stopped"
  BY Zenon DEF Active
<1>2. Rising(wr2 \o bf2) /\ s \in Nat /\ u \in Nat /\ p \in Nat /\ Below(wr2 \o bf2, p)
  BY Zenon DEF Good
<1>3. Below(wr2 \o bf2, p2)
  <2> DEFINE W == wr2 \o bf2
  <2>1. \A i \in DOMAIN W : W[i] <= p
    BY <1>2, Zenon DEF Below
  <2>2. W \in Seq(Nat)
    BY Joined, Zenon
  <2> HIDE DEF W
  <2>3. \A i \in DOMAIN W : W[i] \in Nat
    BY <2>2
  <2>4. \A i \in DOMAIN W : W[i] <= p2
    BY <1>2, <2>1, <2>3
  <2> QED BY <2>4, Zenon DEF W, Below
<1>4. ~k2 /\ in2 => s <= p2 /\ wr2 \o bf2 = Run(s, p2)
  BY Zenon DEF Good
<1> QED BY <1>1, <1>2, <1>3, <1>4, Zenon DEF Good

\* The sink goes to another place of its loop.
LEMMA GoodTurns ==
  ASSUME NEW w, NEW wr, NEW bf, NEW s, NEW u, NEW k, NEW in, NEW p, Good(w, wr, bf, s, u, k, in, p),
         NEW w2, Active(w), Active(w2)
  PROVE  Good(w2, wr, bf, s, u, k, in, p)
<1>1. w2 \notin {"off", "idle"} /\ w2 # "stopped"
  BY Zenon DEF Active
<1> QED BY <1>1, Zenon DEF Good

\* The sink collects the application's next event.
LEMMA GoodTakes ==
  ASSUME NEW w, NEW wr, NEW bf, NEW s, NEW u, NEW k, NEW p, Good(w, wr, bf, s, u, k, TRUE, p),
         NEW w2, Active(w), Active(w2)
  PROVE  Good(w2, wr, bf \o <<p + 1>>, s, u, k, TRUE, p + 1)
<1> DEFINE W == wr \o bf
           V == wr \o (bf \o <<p + 1>>)
<1>0. /\ wr \in Seq(Nat) /\ bf \in Seq(Nat) /\ s \in Nat /\ u \in Nat /\ p \in Nat
      /\ Rising(W) /\ Below(W, p) /\ (~k => s <= p /\ W = Run(s, p))
  BY Zenon DEF Good
<1>1. w2 \notin {"off", "idle"} /\ w2 # "stopped"
  BY Zenon DEF Active
<1>2. /\ bf \o <<p + 1>> \in Seq(Nat) /\ W \in Seq(Nat) /\ V \in Seq(Nat) /\ Len(V) = Len(W) + 1
      /\ \A i \in 1 .. Len(W) : V[i] = W[i]
      /\ V[Len(W) + 1] = p + 1
  <2> DEFINE x == p + 1
  <2>1. x \in Nat
    BY <1>0
  <2> HIDE DEF x
  <2>2. /\ bf \o <<x>> \in Seq(Nat) /\ wr \o bf \in Seq(Nat) /\ wr \o (bf \o <<x>>) \in Seq(Nat)
        /\ Longer(wr \o (bf \o <<x>>), wr \o bf, x)
    BY <1>0, <2>1, JoinedOne, Zenon
  <2> QED BY <2>2, Zenon DEF x, Longer
<1> HIDE DEF W, V
<1>3. /\ DOMAIN W = 1 .. Len(W) /\ Len(W) \in Nat /\ DOMAIN V = 1 .. Len(W) + 1
      /\ \A i \in 1 .. Len(W) : W[i] \in Nat
  BY <1>2
<1>4. \A i \in 1 .. Len(W) : V[i] \in Nat /\ V[i] <= p
  BY <1>0, <1>2, <1>3, Zenon DEF Below
<1>5. Below(V, p + 1)
  <2> SUFFICES ASSUME NEW i \in DOMAIN V PROVE V[i] <= p + 1
    BY Zenon DEF Below
  <2>1. CASE i = Len(W) + 1
    BY <1>0, <1>2, <2>1
  <2>2. CASE i # Len(W) + 1
    <3>1. i \in 1 .. Len(W)
      BY <1>3, <2>2
    <3>2. V[i] \in Nat /\ V[i] <= p
      BY <1>4, <3>1, Zenon
    <3> QED BY <1>0, <3>2
  <2> QED BY <2>1, <2>2, Zenon
<1>6. Rising(V)
  <2> SUFFICES ASSUME NEW i \in DOMAIN V, NEW j \in DOMAIN V, i < j PROVE V[i] < V[j]
    BY Zenon DEF Rising
  <2>1. i \in 1 .. Len(W)
    BY <1>3
  <2>2. CASE j = Len(W) + 1
    BY <1>0, <1>2, <1>4, <2>1, <2>2
  <2>3. CASE j # Len(W) + 1
    <3>1. j \in 1 .. Len(W)
      BY <1>3, <2>3
    <3> QED BY <1>0, <1>2, <1>3, <2>1, <3>1, Zenon DEF Rising
  <2> QED BY <2>2, <2>3, Zenon
<1>7. ~k => s <= p + 1 /\ V = Run(s, p + 1)
  <2> SUFFICES ASSUME ~k PROVE s <= p + 1 /\ V = Run(s, p + 1)
    BY Zenon
  <2>1. s <= p /\ W = [i \in 1 .. p - s |-> s + i]
    BY <1>0, Zenon DEF Run
  <2>2. Len(W) = p - s /\ \A i \in 1 .. p - s : W[i] = s + i
    <3>1. DOMAIN W = 1 .. p - s
      BY <2>1, Zenon
    <3>2. Len(W) = p - s
      BY <1>0, <1>3, <2>1, <3>1
    <3> QED BY <2>1, <3>2, Zenon
  <2>3. DOMAIN V = 1 .. (p + 1) - s
    BY <1>0, <1>3, <2>1, <2>2
  <2>4. \A i \in 1 .. (p + 1) - s : V[i] = s + i
    <3> SUFFICES ASSUME NEW i \in 1 .. (p + 1) - s PROVE V[i] = s + i
      BY Zenon
    <3>1. CASE i = Len(W) + 1
      BY <1>0, <1>2, <2>1, <2>2, <3>1
    <3>2. CASE i # Len(W) + 1
      <4>1. i \in 1 .. Len(W) /\ i \in 1 .. p - s
        BY <1>0, <2>1, <2>2, <3>2
      <4> QED BY <1>2, <2>2, <4>1, Zenon
    <3> QED BY <3>1, <3>2, Zenon
  <2>5. V = [i \in DOMAIN V |-> V[i]]
    BY <1>2
  <2>6. V = [i \in 1 .. (p + 1) - s |-> s + i]
    BY <2>3, <2>4, <2>5, Zenon
  <2> QED BY <1>0, <2>1, <2>6 DEF Run
<1>8. p + 1 \in Nat
  BY <1>0
<1> QED BY <1>0, <1>1, <1>2, <1>5, <1>6, <1>7, <1>8, Zenon DEF Good, V

\* The last drain came to the end, unless the sink skipped.
Drained(k2, k, in, u2, p) == ~k2 => ~k /\ in /\ u2 = p

\* The sink writes what it has and stops.
LEMMA GoodEnds ==
  ASSUME NEW w, NEW wr, NEW bf, NEW s, NEW u, NEW k, NEW in, NEW p, Good(w, wr, bf, s, u, k, in, p),
         NEW u2 \in Nat, NEW k2, NEW in2, NEW p2 \in Nat,
         Active(w), Drained(k2, k, in, u2, p)
  PROVE  Good("stopped", wr \o bf, <<>>, s, u2, k2, in2, p2)
<1>1. /\ wr \in Seq(Nat) /\ bf \in Seq(Nat) /\ s \in Nat /\ Rising(wr \o bf)
      /\ ~k2 => wr \o bf = Run(s, u2)
  BY Zenon DEF Good, Drained
<1> DEFINE W == wr \o bf
<1>2. W \in Seq(Nat)
  BY <1>1, Joined, Zenon
<1> HIDE DEF W
<1>3. W \o <<>> = W /\ <<>> \in Seq(Nat)
  BY <1>2
<1>4. ~Active("stopped") /\ "stopped" \notin {"off", "idle"}
  BY Zenon DEF Active
<1>5. Rising(W \o <<>>) /\ (~k2 => W = Run(s, u2))
  BY <1>1, <1>3, Zenon DEF W
<1>6. Good("stopped", W, <<>>, s, u2, k2, in2, p2)
  BY <1>1, <1>2, <1>3, <1>4, <1>5, Zenon DEF Good
<1> QED BY <1>6, Zenon DEF W

\* A sink that does not read: off, idle, returned or stopped.
LEMMA GoodWaits ==
  ASSUME NEW w, NEW wr, NEW bf, NEW s, NEW u, NEW k, NEW in, NEW p, Good(w, wr, bf, s, u, k, in, p),
         ~Active(w), NEW w2, NEW in2, NEW p2 \in Nat,
         w2 = w \/ (w \in {"off", "idle"} /\ w2 \in {"idle", "returned"})
  PROVE  Good(w2, wr, bf, s, u, k, in2, p2)
<1>1. ~Active(w2)
  BY Zenon DEF Active
<1>2. w2 \in {"off", "idle"} => wr = <<>>
  <2>1. w2 \in {"off", "idle"} => w \in {"off", "idle"}
    BY Zenon DEF Active
  <2> QED BY <2>1, Zenon DEF Good
<1>3. w2 = "stopped" /\ ~k => wr = Run(s, u)
  BY Zenon DEF Good
<1> QED BY <1>1, <1>2, <1>3, Zenon DEF Good

\* A sink subscribes.
LEMMA GoodStarts ==
  ASSUME NEW wr, NEW bf, NEW s, NEW u, NEW k, NEW in, NEW p, Good("off", wr, bf, s, u, k, in, p),
         NEW in2, NEW p2 \in Nat
  PROVE  Good("loop", wr, bf, p2, u, k, in2, p2)
<1>1. wr = <<>> /\ bf = <<>> /\ u \in Nat
  BY Zenon DEF Good, Active
<1>2. <<>> \in Seq(Nat) /\ <<>> \o <<>> = <<>> /\ DOMAIN <<>> = {}
  OBVIOUS
<1>3. Run(p2, p2) = <<>>
  BY DEF Run
<1>4. Rising(<<>>) /\ Below(<<>>, p2) /\ p2 <= p2
  BY <1>2 DEF Rising, Below
<1>5. Active("loop") /\ "loop" \notin {"off", "idle"} /\ "loop" # "stopped"
  BY Zenon DEF Active
<1> QED BY <1>1, <1>2, <1>3, <1>4, <1>5, Zenon DEF Good

(* The collector's counts: of the events I of an edge p, those numbered after a up to b. *)
Edge(i) == i[1] # 0 /\ i[2] # 0 /\ i[1] # i[2]
SeenIn(I, p, a, b) == {e \in a + 1 .. b : Edge(I[e]) /\ I[e] = p}
CountIn(E, p) == IF p \in DOMAIN E THEN E[p] ELSE 0
Tally(E, I, a, b) == \A p : CountIn(E, p) = Cardinality(SeenIn(I, p, a, b))

\* An empty table counts no events.
LEMMA TallyStarts ==
  ASSUME NEW E, NEW I, NEW a \in Nat, DOMAIN E = {}
  PROVE  Tally(E, I, a, a)
<1>1. a + 1 .. a = {}
  OBVIOUS
<1>2. \A p : SeenIn(I, p, a, a) = {}
  BY <1>1, Zenon DEF SeenIn
<1>3. Cardinality({}) = 0
  BY FS_EmptySet, Zenon
<1> QED BY <1>2, <1>3, Zenon DEF Tally, CountIn

\* Events that are published later do not change the counts.
LEMMA TallyKept ==
  ASSUME NEW E, NEW I, NEW J, NEW a \in Nat, NEW b \in Nat, Tally(E, I, a, b),
         \A e \in 1 .. b : J[e] = I[e]
  PROVE  Tally(E, J, a, b)
<1>1. \A e \in a + 1 .. b : e \in 1 .. b
  OBVIOUS
<1>2. \A p : SeenIn(J, p, a, b) = SeenIn(I, p, a, b)
  BY <1>1, Zenon DEF SeenIn
<1> QED BY <1>2, Zenon DEF Tally

\* The next event is counted when it is an edge.
LEMMA TallyTakes ==
  ASSUME NEW E, NEW I, NEW a \in Nat, NEW b \in Nat, a <= b, Tally(E, I, a, b)
  PROVE  LET q == I[b + 1]
             F == [p \in DOMAIN E \cup {q} |-> IF p = q THEN CountIn(E, q) + 1 ELSE E[p]]
         IN  Tally(IF Edge(q) THEN F ELSE E, I, a, b + 1)
<1> DEFINE q == I[b + 1]
           F == [p \in DOMAIN E \cup {q} |-> IF p = q THEN CountIn(E, q) + 1 ELSE E[p]]
<1>1. a + 1 .. b + 1 = (a + 1 .. b) \cup {b + 1} /\ b + 1 \notin a + 1 .. b
  OBVIOUS
<1>2. ASSUME NEW p, p # q \/ ~Edge(q) PROVE SeenIn(I, p, a, b + 1) = SeenIn(I, p, a, b)
  BY <1>1, <1>2, Zenon DEF SeenIn
<1>3. CASE ~Edge(q)
  BY <1>2, <1>3, Zenon DEF Tally
<1>4. CASE Edge(q)
  <2>1. SeenIn(I, q, a, b + 1) = SeenIn(I, q, a, b) \cup {b + 1} /\ b + 1 \notin SeenIn(I, q, a, b)
    BY <1>1, <1>4, Zenon DEF SeenIn
  <2>2. IsFiniteSet(SeenIn(I, q, a, b))
    <3>1. a + 1 \in Int /\ b \in Int
      OBVIOUS
    <3>2. IsFiniteSet(a + 1 .. b) /\ SeenIn(I, q, a, b) \subseteq a + 1 .. b
      BY <3>1, FS_Interval, Zenon DEF SeenIn
    <3> QED BY <3>2, FS_Subset, Zenon
  <2>3. Cardinality(SeenIn(I, q, a, b + 1)) = Cardinality(SeenIn(I, q, a, b)) + 1
    BY <2>1, <2>2, FS_AddElement, Zenon
  <2>4. ASSUME NEW p PROVE CountIn(F, p) = IF p = q THEN CountIn(E, q) + 1 ELSE CountIn(E, p)
    BY Zenon DEF CountIn
  <2> HIDE DEF F
  <2>5. Tally(F, I, a, b + 1)
    BY <1>2, <2>3, <2>4, Zenon DEF Tally
  <2> QED BY <1>4, <2>5, Zenon DEF F
<1> QED BY <1>3, <1>4, Zenon

\* The queue as the readers see it: who reads where, and how far each cursor is behind.
Pairs == {IdsIn(scope) : scope \in Scopes}
Places == {"off", "idle", "loop", "poll", "greedy", "final", "collect", "returned", "stopped"}

QueueInv ==
  /\ Queue(ring, Len(ids), cap) /\ ids \in Seq(Pairs)
  /\ where \in [Readers -> Places] /\ behind \in [Readers -> Nat]
  /\ \A r \in Readers : /\ Cursor(ring, behind[r], cap)
                        /\ where[r] \in {"off", "idle"} => behind[r] = 0

\* The types of what the sinks write and of what is noted about them.
SinkTypes ==
  /\ written \in [Sinks -> Seq(Nat)] /\ buffer \in [Sinks -> Seq(Nat)]
  /\ since \in [Readers -> Nat] /\ upto \in [Sinks -> Nat] /\ skipped \in [Readers -> BOOLEAN]

\* A sink has, in order and once, the events its cursor has passed, unless it skipped.
SinkOk(r) ==
  Good(where[r], written[r], buffer[r], since[r], upto[r], skipped[r], behind[r] <= cap, Passed(r))

\* The collector's table counts the events it has passed since it was cleared.
CollectorOk ==
  /\ where[Collector] \in {"off", "collect"} /\ cleared \in Nat
  /\ where[Collector] = "off" => DOMAIN edges = {}
  /\ where[Collector] = "collect" =>
       /\ cleared <= Passed(Collector)
       /\ ~skipped[Collector] /\ behind[Collector] <= cap =>
            Tally(edges, ids, cleared, Passed(Collector))

\* The inductive invariant of Logging.
LogInv == QueueInv /\ SinkTypes /\ (\A r \in Sinks : SinkOk(r)) /\ CollectorOk

\* What a step leaves a reader that does not take it: its cursor stays before the same
\* event, or that event is gone.
Moves(r) ==
  /\ Passed(r)' \in Nat
  /\ Active(where[r]) =>
       /\ Passed(r) <= Passed(r)'
       /\ behind'[r] <= cap' => behind[r] <= cap /\ Passed(r)' = Passed(r)

\* The sinks and the collector are the readers.
LEMMA ReadersApart == Sinks \subseteq Readers /\ Collector \in Readers /\ Collector \notin Sinks
  BY LogAssumption, Zenon DEF Readers

\* A reader reads while its loop or its last drain runs.
LEMMA ReadingIs == \A r \in Readers : r \in Reading <=> Active(where[r])
  BY Zenon DEF Reading, Active

\* Passed, from the queue and the cursor alone.
LEMMA PassedIs ==
  ASSUME NEW r
  PROVE  /\ Passed(r) = PassedAt(ring, behind[r], Len(ids), cap)
         /\ Passed(r)' = PassedAt(ring', behind'[r], Len(ids'), cap')
  BY Zenon DEF Passed, AtCursor, PassedAt

\* A cursor has passed at most what is published.
LEMMA PassedNat ==
  ASSUME QueueInv, NEW r \in Readers
  PROVE  Passed(r) \in Nat /\ Passed(r) \in 0 .. Len(ids)
<1>1. PassedAt(ring, behind[r], Len(ids), cap) \in 0 .. Len(ids)
  BY PassedRange, Zenon DEF QueueInv
<1>2. Passed(r) \in 0 .. Len(ids)
  BY <1>1, PassedIs, Zenon
<1>3. \A n : n \in 0 .. Len(ids) => n \in Nat
  OBVIOUS
<1> QED BY <1>2, <1>3, Zenon

\* The same in the next state.
LEMMA PassedNatNext ==
  ASSUME QueueInv', NEW r \in Readers
  PROVE  Passed(r)' \in Nat
<1>1. PassedAt(ring', behind'[r], Len(ids'), cap') \in 0 .. Len(ids')
  BY PassedRange, Zenon DEF QueueInv, Readers
<1>2. Passed(r)' \in 0 .. Len(ids')
  BY <1>1, PassedIs, Zenon
<1>3. \A n : n \in 0 .. Len(ids') => n \in Nat
  OBVIOUS
<1> QED BY <1>2, <1>3, Zenon

\* A step of r that sends nothing.
LEMMA QuietMoves ==
  ASSUME QueueInv, ring' = ring, ids' = ids, cap' = cap, NEW r \in Readers, NEW b, NEW w \in Places,
         behind' = [behind EXCEPT ![r] = b], Cursor(ring, b, cap),
         where' = [where EXCEPT ![r] = w], w \in {"off", "idle"} => b = 0
  PROVE  /\ QueueInv' /\ \A o \in Readers \ {r} : where'[o] = where[o] /\ Moves(o)
         /\ behind'[r] = b /\ where'[r] = w /\ Passed(r)' = PassedAt(ring, b, Len(ids), cap)
         /\ Passed(r)' \in Nat
<1>1. where \in [Readers -> Places] /\ behind \in [Readers -> Nat]
  BY Zenon DEF QueueInv
<1>2. cap \in Nat
  BY QueueTypes, Zenon DEF QueueInv
<1>3. b \in Nat
  BY <1>2 DEF Cursor
<1>4. where' \in [Readers -> Places] /\ behind' \in [Readers -> Nat]
  BY <1>1, <1>3, Zenon
<1>5. behind'[r] = b /\ where'[r] = w /\ \A o \in Readers \ {r} : behind'[o] = behind[o] /\ where'[o] = where[o]
  BY <1>1, Zenon
<1>6. QueueInv'
  <2>1. ASSUME NEW o \in Readers
        PROVE  Cursor(ring', behind'[o], cap') /\ (where'[o] \in {"off", "idle"} => behind'[o] = 0)
    <3>1. CASE o = r
      BY <1>5, <3>1, Zenon
    <3>2. CASE o # r
      BY <1>5, <3>2, Zenon DEF QueueInv
    <3> QED BY <3>1, <3>2, Zenon
  <2>2. Queue(ring', Len(ids'), cap') /\ ids' \in Seq(Pairs)
    BY Zenon DEF QueueInv
  <2> QED BY <1>4, <2>1, <2>2, Zenon DEF QueueInv
<1>7. ASSUME NEW o \in Readers \ {r} PROVE Moves(o)
  <2>1. Passed(o)' = Passed(o)
    BY <1>5, PassedIs, Zenon
  <2>2. Passed(o) \in Nat /\ Passed(o) <= Passed(o)
    BY PassedNat
  <2> QED BY <1>5, <2>1, <2>2, Zenon DEF Moves
<1>8. Passed(r)' = PassedAt(ring, b, Len(ids), cap)
  BY <1>5, PassedIs, Zenon
<1> QED BY <1>5, <1>6, <1>7, <1>8, PassedNatNext, Zenon

\* A send, with the cursors at pos before it.
LEMMA SendFacts ==
  ASSUME QueueInv, NEW pos \in [Readers -> Nat], \A o \in Readers : Cursor(ring, pos[o], cap),
         NEW e \in Events, e.n = IF e.own THEN Len(ids) ELSE Len(ids) + 1,
         Send(e, pos), cap' = cap, Len(ids') = e.n
  PROVE  /\ Queue(ring', Len(ids'), cap') /\ behind' \in [Readers -> Nat]
         /\ \A o \in Readers :
              /\ Cursor(ring', behind'[o], cap')
              /\ ~Active(where[o]) => behind'[o] = pos[o]
              /\ Active(where[o]) =>
                   /\ PassedAt(ring, pos[o], Len(ids), cap) <= Passed(o)'
                   /\ behind'[o] <= cap' =>
                        pos[o] <= cap /\ Passed(o)' = PassedAt(ring, pos[o], Len(ids), cap)
<1> DEFINE k == IF Len(ring) = cap THEN 1 ELSE 0
<1>1. Queue(ring, Len(ids), cap) /\ ring \in Seq(Events) /\ cap \in Nat \ {0} /\ Len(ring) <= cap
  BY Zenon DEF QueueInv, Queue
<1>2. ring' = Append(IF Len(ring) = cap THEN Tail(ring) ELSE ring, e)
  BY Zenon DEF Send
<1>3. ring' \in Seq(Events) /\ Len(ring') \in 1 .. cap /\ Slides(ring, ring', e, k)
  BY <1>1, <1>2, SendSlides, Zenon
<1>0. Sent(ring, Len(ids), cap, e, ring', k)
  BY <1>1, <1>3, Zenon DEF Sent
<1> HIDE DEF k
<1>4. Queue(ring', e.n, cap)
  BY <1>0, SendKeepsQueue, Zenon
<1>5. behind' = [r \in Readers |-> IF r \in Reading /\ pos[r] <= cap THEN pos[r] + 1 ELSE pos[r]]
  BY Zenon DEF Send
<1>6. behind' \in [Readers -> Nat]
  BY <1>5
<1>7. ASSUME NEW o \in Readers
      PROVE  /\ Cursor(ring', behind'[o], cap')
             /\ ~Active(where[o]) => behind'[o] = pos[o]
             /\ Active(where[o]) =>
                  /\ PassedAt(ring, pos[o], Len(ids), cap) <= Passed(o)'
                  /\ behind'[o] <= cap' =>
                       pos[o] <= cap /\ Passed(o)' = PassedAt(ring, pos[o], Len(ids), cap)
  <2> DEFINE b == pos[o]
             d == Further(b, cap)
             p == PassedAt(ring, b, Len(ids), cap)
  <2>1. behind'[o] = IF Active(where[o]) THEN d ELSE b
    BY <1>5, ReadingIs, Zenon DEF Further
  <2>2. Cursor(ring, b, cap)
    BY Zenon
  <2>3. /\ Cursor(ring', d, cap) /\ Cursor(ring', b, cap)
        /\ p <= PassedAt(ring', d, e.n, cap)
        /\ d <= cap => b <= cap /\ PassedAt(ring', d, e.n, cap) = p
    <3>1. CursorKept(ring, Len(ids), ring', e.n, b, cap)
      BY <1>0, <2>2, SendKeepsCursor, Zenon
    <3> QED BY <3>1, Zenon DEF CursorKept
  <2>4. Passed(o)' = PassedAt(ring', behind'[o], e.n, cap)
    BY PassedIs, Zenon
  <2> HIDE DEF d, p
  <2> QED BY <2>1, <2>3, <2>4, Zenon DEF p
<1> QED BY <1>4, <1>6, <1>7, Zenon

\* A step of r that puts its cursor at b and may log.
LEMMA NoteMoves ==
  ASSUME QueueInv, ids' = ids, cap' = cap, NEW r \in Readers, Active(where[r]), NEW b, Cursor(ring, b, cap),
         Note([behind EXCEPT ![r] = b]), NEW w \in Places, w \notin {"off", "idle"},
         where' = [where EXCEPT ![r] = w]
  PROVE  /\ QueueInv' /\ \A o \in Readers \ {r} : where'[o] = where[o] /\ Moves(o)
         /\ where'[r] = w /\ Passed(r)' \in Nat
         /\ PassedAt(ring, b, Len(ids), cap) <= Passed(r)'
<1> DEFINE pos == [behind EXCEPT ![r] = b]
<1>1. /\ where \in [Readers -> Places] /\ behind \in [Readers -> Nat]
      /\ Queue(ring, Len(ids), cap) /\ ids \in Seq(Pairs)
      /\ \A o \in Readers : Cursor(ring, behind[o], cap) /\ (where[o] \in {"off", "idle"} => behind[o] = 0)
  BY Zenon DEF QueueInv
<1>2. cap \in Nat /\ Len(ids) \in Nat
  BY <1>1, QueueTypes, Zenon
<1>3. b \in Nat
  BY <1>2 DEF Cursor
<1>4. pos \in [Readers -> Nat] /\ pos[r] = b /\ \A o \in Readers \ {r} : pos[o] = behind[o]
  BY <1>1, <1>3, Zenon
<1>5. where' \in [Readers -> Places] /\ where'[r] = w /\ \A o \in Readers \ {r} : where'[o] = where[o]
  BY <1>1, Zenon
<1>6. \A o \in Readers : Cursor(ring, pos[o], cap)
  BY <1>1, <1>4, Zenon
<1> HIDE DEF pos
<1>7. CASE level = "info"
  <2> DEFINE e == [n |-> Len(ids), own |-> TRUE]
  <2>1. e \in Events /\ e.n = Len(ids) /\ e.own
    BY <1>2, Zenon DEF Events
  <2>2. Send(e, pos)
    BY <1>7, Zenon DEF Note, pos
  <2> HIDE DEF e
  <2>3. Len(ids') = e.n /\ (e.n = IF e.own THEN Len(ids) ELSE Len(ids) + 1)
    BY <2>1, Zenon
  <2>4. /\ Queue(ring', Len(ids'), cap') /\ behind' \in [Readers -> Nat]
        /\ \A o \in Readers :
              /\ Cursor(ring', behind'[o], cap')
              /\ ~Active(where[o]) => behind'[o] = pos[o]
              /\ Active(where[o]) =>
                   /\ PassedAt(ring, pos[o], Len(ids), cap) <= Passed(o)'
                   /\ behind'[o] <= cap' =>
                        pos[o] <= cap /\ Passed(o)' = PassedAt(ring, pos[o], Len(ids), cap)
    BY <1>4, <1>6, <2>1, <2>2, <2>3, SendFacts, Zenon
  <2>5. \A o \in Readers : where'[o] \in {"off", "idle"} => behind'[o] = 0
    <3> SUFFICES ASSUME NEW o \in Readers, where'[o] \in {"off", "idle"} PROVE behind'[o] = 0
      BY Zenon
    <3>1. o # r /\ where[o] \in {"off", "idle"}
      BY <1>5, Zenon
    <3>2. ~Active(where[o])
      BY <3>1, Zenon DEF Active
    <3> QED BY <1>1, <1>4, <2>4, <3>1, <3>2, Zenon
  <2>6. QueueInv'
    BY <1>1, <1>5, <2>4, <2>5, Zenon DEF QueueInv
  <2>7. ASSUME NEW o \in Readers \ {r} PROVE Moves(o)
    <3>1. pos[o] = behind[o] /\ Passed(o) = PassedAt(ring, behind[o], Len(ids), cap) /\ Passed(o)' \in Nat
      BY <1>4, <2>6, PassedIs, PassedNatNext, Zenon
    <3> QED BY <2>4, <3>1, Zenon DEF Moves
  <2>8. PassedAt(ring, b, Len(ids), cap) <= Passed(r)'
    BY <1>4, <2>4, Zenon
  <2> QED BY <1>5, <2>6, <2>7, <2>8, PassedNatNext, Zenon
<1>8. CASE level # "info"
  <2>1. behind' = [behind EXCEPT ![r] = b] /\ ring' = ring
    BY <1>8, Zenon DEF Note
  <2>2. /\ QueueInv' /\ \A o \in Readers \ {r} : where'[o] = where[o] /\ Moves(o)
        /\ where'[r] = w /\ Passed(r)' = PassedAt(ring, b, Len(ids), cap) /\ Passed(r)' \in Nat
    BY <2>1, QuietMoves, Zenon
  <2>3. Passed(r)' <= Passed(r)'
    BY <2>2
  <2> QED BY <2>2, <2>3, Zenon
<1> QED BY <1>7, <1>8, Zenon

\* A sequence keeps what it had under what is appended.
LEMMA Appended ==
  ASSUME NEW S, NEW q \in Seq(S), NEW x \in S
  PROVE  /\ Append(q, x) \in Seq(S) /\ Len(Append(q, x)) = Len(q) + 1
         /\ \A i \in 1 .. Len(q) : Append(q, x)[i] = q[i]
OBVIOUS

\* Emit leaves every cursor before the same event, or that event is gone.
LEMMA EmitMoves ==
  ASSUME QueueInv, Emit
  PROVE  /\ QueueInv' /\ \A o \in Readers : Moves(o)
         /\ \A e \in 1 .. Len(ids) : ids'[e] = ids[e]
<1>1. /\ where \in [Readers -> Places] /\ behind \in [Readers -> Nat]
      /\ Queue(ring, Len(ids), cap) /\ ids \in Seq(Pairs)
      /\ \A o \in Readers : Cursor(ring, behind[o], cap) /\ (where[o] \in {"off", "idle"} => behind[o] = 0)
  BY Zenon DEF QueueInv
<1> DEFINE e == [n |-> Len(ids) + 1, own |-> FALSE]
<1>2. PICK scope \in Scopes : ids' = Append(ids, IdsIn(scope))
  BY Zenon DEF Emit
<1>3. Send(e, behind) /\ cap' = cap /\ where' = where
  BY Zenon DEF Emit
<1>4. IdsIn(scope) \in Pairs
  BY Zenon DEF Pairs
<1>5. ids' \in Seq(Pairs) /\ Len(ids') = Len(ids) + 1 /\ \A i \in 1 .. Len(ids) : ids'[i] = ids[i]
  <2>1. ids \in Seq(Pairs) /\ IdsIn(scope) \in Pairs /\ ids' = Append(ids, IdsIn(scope))
    BY <1>1, <1>2, <1>4, Zenon
  <2> QED BY <2>1, Appended, Zenon
<1>6. e \in Events /\ e.n = Len(ids) + 1 /\ ~e.own
  BY <1>1 DEF Events
<1> HIDE DEF e
<1>7. Len(ids') = e.n /\ (e.n = IF e.own THEN Len(ids) ELSE Len(ids) + 1)
  BY <1>5, <1>6, Zenon
<1>8. /\ Queue(ring', Len(ids'), cap') /\ behind' \in [Readers -> Nat]
      /\ \A o \in Readers :
            /\ Cursor(ring', behind'[o], cap')
            /\ ~Active(where[o]) => behind'[o] = behind[o]
            /\ Active(where[o]) =>
                 /\ PassedAt(ring, behind[o], Len(ids), cap) <= Passed(o)'
                 /\ behind'[o] <= cap' =>
                      behind[o] <= cap /\ Passed(o)' = PassedAt(ring, behind[o], Len(ids), cap)
  BY <1>1, <1>3, <1>6, <1>7, SendFacts, Zenon
<1>9. \A o \in Readers : where'[o] \in {"off", "idle"} => behind'[o] = 0
  <2> SUFFICES ASSUME NEW o \in Readers, where'[o] \in {"off", "idle"} PROVE behind'[o] = 0
    BY Zenon
  <2>1. where[o] \in {"off", "idle"} /\ ~Active(where[o])
    BY <1>3, Zenon DEF Active
  <2> QED BY <1>1, <1>8, <2>1, Zenon
<1>10. QueueInv'
  BY <1>1, <1>3, <1>5, <1>8, <1>9, Zenon DEF QueueInv
<1>11. ASSUME NEW o \in Readers PROVE Moves(o)
  <2>1. Passed(o) = PassedAt(ring, behind[o], Len(ids), cap) /\ Passed(o)' \in Nat
    BY <1>10, PassedIs, PassedNatNext, Zenon
  <2> QED BY <1>8, <2>1, Zenon DEF Moves
<1> QED BY <1>5, <1>10, <1>11, Zenon

\* What a step of r leaves the others.
Elsewhere(r) ==
  /\ \A o \in Readers \ {r} : /\ where'[o] = where[o] /\ Moves(o)
                              /\ since'[o] = since[o] /\ skipped'[o] = skipped[o]
  /\ \A o \in Sinks \ {r} : written'[o] = written[o] /\ buffer'[o] = buffer[o] /\ upto'[o] = upto[o]

\* A sink that takes no part in a step keeps its invariant.
LEMMA SinkKept ==
  ASSUME NEW o \in Sinks, SinkOk(o), SinkTypes, Moves(o), where'[o] = where[o],
         since'[o] = since[o], skipped'[o] = skipped[o],
         written'[o] = written[o], buffer'[o] = buffer[o], upto'[o] = upto[o]
  PROVE  SinkOk(o)'
<1> DEFINE in == behind[o] <= cap
           in2 == behind'[o] <= cap'
           p == Passed(o)
           p2 == Passed(o)'
           w == where[o]
           wr == written[o]
           bf == buffer[o]
           k == skipped[o]
<1>1. Good(w, wr, bf, since[o], upto[o], k, in, p) /\ p2 \in Nat
  BY Zenon DEF SinkOk, Moves
<1>2. Active(w) => p <= p2 /\ (in2 => in /\ p2 = p)
  BY Zenon DEF Moves
<1>3. SUFFICES Good(w, wr, bf, since[o], upto[o], k, in2, p2)
  BY <1>3, Zenon DEF SinkOk
<1>4. wr \in Seq(Nat) /\ bf \in Seq(Nat)
  BY Zenon DEF SinkTypes
<1> HIDE DEF in, in2, p, p2, w, wr, bf, k
<1>5. CASE Active(w)
  <2>1. p <= p2 /\ (~k /\ in2 => ~k /\ in /\ p2 = p)
    BY <1>2, <1>5, Zenon
  <2> QED BY <1>1, <1>4, <1>5, <2>1, GoodStays, Zenon
<1>6. CASE ~Active(w)
  BY <1>1, <1>6, GoodWaits, Zenon
<1> QED BY <1>5, <1>6, Zenon

\* So does the collector.
LEMMA CollectorKept ==
  ASSUME QueueInv, CollectorOk, Moves(Collector), where'[Collector] = where[Collector],
         skipped'[Collector] = skipped[Collector], edges' = edges, cleared' = cleared,
         \A e \in 1 .. Len(ids) : ids'[e] = ids[e]
  PROVE  CollectorOk'
<1> DEFINE p == Passed(Collector)
           p2 == Passed(Collector)'
<1>1. where[Collector] \in {"off", "collect"} /\ cleared \in Nat /\ (where[Collector] = "off" => DOMAIN edges = {})
  BY Zenon DEF CollectorOk
<1>2. p \in Nat /\ p2 \in Nat /\ \A e \in 1 .. p : ids'[e] = ids[e]
  <2>1. p \in Nat /\ p \in 0 .. Len(ids)
    BY PassedNat, ReadersApart, Zenon
  <2>2. p2 \in Nat
    BY Zenon DEF Moves
  <2> HIDE DEF p, p2
  <2>3. Len(ids) \in Nat
    BY QueueTypes, Zenon DEF QueueInv
  <2>4. \A e \in 1 .. p : e \in 1 .. Len(ids)
    BY <2>1, <2>3
  <2> QED BY <2>1, <2>2, <2>4, Zenon
<1>3. CASE where[Collector] = "collect"
  <2>1. Active(where[Collector])
    BY <1>3, Zenon DEF Active
  <2>2. p <= p2 /\ (behind'[Collector] <= cap' => behind[Collector] <= cap /\ p2 = p)
    BY <2>1, Zenon DEF Moves
  <2>3. cleared <= p /\ (~skipped[Collector] /\ behind[Collector] <= cap => Tally(edges, ids, cleared, p))
    BY <1>3, Zenon DEF CollectorOk
  <2>4. ~skipped'[Collector] /\ behind'[Collector] <= cap' => Tally(edges', ids', cleared', p2)
    <3> SUFFICES ASSUME ~skipped'[Collector], behind'[Collector] <= cap' PROVE Tally(edges', ids', cleared', p2)
      BY Zenon
    <3>1. p2 = p /\ Tally(edges, ids, cleared, p)
      BY <2>2, <2>3, Zenon
    <3> HIDE DEF p, p2
    <3>2. Tally(edges, ids', cleared, p)
      BY <1>1, <1>2, <3>1, TallyKept, Zenon
    <3> QED BY <3>1, <3>2, Zenon
  <2> HIDE DEF p, p2
  <2>5. cleared' <= p2
    BY <1>1, <1>2, <2>2, <2>3
  <2>6. where'[Collector] # "off"
    BY <1>3, Zenon
  <2> QED BY <1>1, <2>4, <2>5, <2>6, Zenon DEF CollectorOk, p2
<1>4. CASE where[Collector] # "collect"
  BY <1>1, <1>4, Zenon DEF CollectorOk
<1> QED BY <1>3, <1>4, Zenon

\* A step of one sink need only keep the queue and that sink.
LEMMA SinkActs ==
  ASSUME LogInv, NEW r \in Sinks, QueueInv', SinkTypes', Elsewhere(r), SinkOk(r)',
         ids' = ids, edges' = edges, cleared' = cleared
  PROVE  LogInv'
<1>1. ASSUME NEW o \in Sinks PROVE SinkOk(o)'
  <2>1. CASE o = r
    BY <2>1, Zenon
  <2>2. CASE o # r
    <3>1. SinkOk(o) /\ SinkTypes /\ o \in Readers \ {r} /\ o \in Sinks \ {r}
      BY <2>2, ReadersApart, Zenon DEF LogInv
    <3> QED BY <3>1, SinkKept, Zenon DEF Elsewhere
  <2> QED BY <2>1, <2>2, Zenon
<1>2. CollectorOk'
  <2>1. Collector \in Readers \ {r} /\ QueueInv /\ CollectorOk
    BY ReadersApart, Zenon DEF LogInv
  <2>2. \A e \in 1 .. Len(ids) : ids'[e] = ids[e]
    BY Zenon
  <2> QED BY <2>1, <2>2, CollectorKept, Zenon DEF Elsewhere
<1> QED BY <1>1, <1>2, Zenon DEF LogInv

\* A step of the collector need only keep the queue and the collector.
LEMMA CollectorActs ==
  ASSUME LogInv, QueueInv', SinkTypes', Elsewhere(Collector), CollectorOk'
  PROVE  LogInv'
<1>1. ASSUME NEW o \in Sinks PROVE SinkOk(o)'
  <2>1. SinkOk(o) /\ SinkTypes /\ o \in Readers \ {Collector} /\ o \in Sinks \ {Collector}
    BY ReadersApart, Zenon DEF LogInv
  <2> QED BY <2>1, SinkKept, Zenon DEF Elsewhere
<1> QED BY <1>1, Zenon DEF LogInv

\* A sink changes its place and nothing else: Poll, and Break while it reads.
LEMMA SinkTurns ==
  ASSUME LogInv, NEW r \in Sinks, NEW w \in Places, where' = [where EXCEPT ![r] = w],
         (Active(where[r]) /\ Active(w)) \/ (where[r] \in {"off", "idle"} /\ w \in {"idle", "returned"}),
         UNCHANGED <<ring, ids, cap, behind, buffer, written, edges, since, skipped, cleared, upto>>
  PROVE  LogInv'
<1>0. r \in Readers /\ QueueInv /\ SinkTypes /\ SinkOk(r)
  BY ReadersApart, Zenon DEF LogInv
<1>1. behind' = [behind EXCEPT ![r] = behind[r]] /\ Cursor(ring, behind[r], cap)
  BY <1>0, Zenon DEF QueueInv
<1>2. w \in {"off", "idle"} => behind[r] = 0
  <2>1. w \in {"off", "idle"} => where[r] \in {"off", "idle"}
    BY Zenon DEF Active
  <2> QED BY <1>0, <2>1, Zenon DEF QueueInv
<1>3. /\ QueueInv' /\ \A o \in Readers \ {r} : where'[o] = where[o] /\ Moves(o)
      /\ where'[r] = w /\ Passed(r)' = PassedAt(ring, behind[r], Len(ids), cap) /\ Passed(r)' \in Nat
  BY <1>0, <1>1, <1>2, QuietMoves, Zenon
<1>4. Passed(r)' = Passed(r) /\ Passed(r) <= Passed(r)'
  <2>1. Passed(r)' = Passed(r)
    BY <1>3, PassedIs, Zenon
  <2>2. Passed(r) <= Passed(r)
    BY <1>3, <2>1
  <2> QED BY <2>1, <2>2, Zenon
<1>5. SinkTypes'
  BY <1>0, Zenon DEF SinkTypes
<1>6. Elsewhere(r)
  BY <1>3, Zenon DEF Elsewhere
<1>7. SinkOk(r)'
  <2>1. /\ Good(where[r], written[r], buffer[r], since[r], upto[r], skipped[r], behind[r] <= cap, Passed(r))
        /\ written[r] \in Seq(Nat) /\ buffer[r] \in Seq(Nat)
    BY <1>0, Zenon DEF SinkOk, SinkTypes
  <2>2. Good(w, written[r], buffer[r], since[r], upto[r], skipped[r], behind[r] <= cap, Passed(r)')
    <3>1. CASE Active(where[r]) /\ Active(w)
      <4>1. Good(w, written[r], buffer[r], since[r], upto[r], skipped[r], behind[r] <= cap, Passed(r))
        BY <2>1, <3>1, GoodTurns, Zenon
      <4> QED BY <1>4, <4>1, Zenon
    <3>2. CASE where[r] \in {"off", "idle"} /\ w \in {"idle", "returned"}
      <4>1. ~Active(where[r])
        BY <3>2, Zenon DEF Active
      <4> QED BY <1>3, <2>1, <3>2, <4>1, GoodWaits, Zenon
    <3> QED BY <3>1, <3>2, Zenon
  <2> QED BY <1>3, <2>2, Zenon DEF SinkOk
<1> QED BY <1>5, <1>3, <1>6, <1>7, SinkActs, Zenon

\* A sink takes the event at its cursor: Recv, Greedy and FinalRecv.
LEMMA SinkTakes ==
  ASSUME LogInv, NEW r \in Sinks, NEW w \in Places, where' = [where EXCEPT ![r] = w],
         Active(where[r]), Active(w), behind[r] \in 1 .. cap,
         behind' = [behind EXCEPT ![r] = @ - 1], buffer' = [buffer EXCEPT ![r] = @ \o Taken(r)],
         UNCHANGED <<ring, ids, cap, written, edges, since, skipped, cleared, upto>>
  PROVE  LogInv'
<1>0. r \in Readers /\ QueueInv /\ SinkTypes /\ SinkOk(r) /\ Queue(ring, Len(ids), cap)
      /\ Cursor(ring, behind[r], cap)
  BY ReadersApart, Zenon DEF LogInv, QueueInv
<1> DEFINE b == behind[r]
           e == AtCursor(r)
           p == Passed(r)
<1>1. e = ring[Len(ring) - b + 1] /\ p = PassedAt(ring, b, Len(ids), cap)
  BY PassedIs, Zenon DEF AtCursor
<1>2. /\ Cursor(ring, b - 1, cap) /\ e \in Events /\ p \in Nat
      /\ PassedAt(ring, b - 1, Len(ids), cap) = IF e.own THEN p ELSE e.n
      /\ ~e.own => e.n = p + 1
  <2> DEFINE f == ring[Len(ring) - b + 1]
             g == PassedAt(ring, b, Len(ids), cap)
  <2>1. /\ Cursor(ring, b - 1, cap) /\ f \in Events /\ g \in Nat
        /\ PassedAt(ring, b - 1, Len(ids), cap) = IF f.own THEN g ELSE f.n
        /\ ~f.own => f.n = g + 1
    <3>1. Received(ring, Len(ids), cap, behind[r])
      BY <1>0, RecvMoves, Zenon
    <3> QED BY <3>1, Zenon DEF Received
  <2> HIDE DEF e, p, f, g
  <2>2. f = e /\ g = p
    BY <1>1, Zenon DEF f, g
  <2> QED BY <2>1, <2>2, Zenon
<1>3. w \notin {"off", "idle"}
  BY Zenon DEF Active
<1>4. /\ QueueInv' /\ \A o \in Readers \ {r} : where'[o] = where[o] /\ Moves(o)
      /\ where'[r] = w /\ behind'[r] = b - 1 /\ Passed(r)' = PassedAt(ring, b - 1, Len(ids), cap)
      /\ Passed(r)' \in Nat
  BY <1>0, <1>2, <1>3, QuietMoves, Zenon
<1>5. Taken(r) = IF e.own THEN <<>> ELSE <<e.n>>
  BY Zenon DEF Taken
<1>t. Taken(r) \in Seq(Nat)
  <2>1. e.n \in Nat
    BY <1>2, Zenon DEF Events
  <2> HIDE DEF e
  <2> QED BY <1>5, <2>1
<1>6. /\ buffer'[r] = buffer[r] \o Taken(r) /\ \A o \in Sinks \ {r} : buffer'[o] = buffer[o]
      /\ buffer[r] \in Seq(Nat) /\ written[r] \in Seq(Nat)
  BY <1>0, Zenon DEF SinkTypes
<1>7. buffer'[r] \in Seq(Nat)
  <2>1. \A x, y \in Seq(Nat) : x \o y \in Seq(Nat)
    BY Joined, Zenon
  <2> QED BY <1>6, <1>t, <2>1, Zenon
<1>8. SinkTypes'
  <2>1. buffer' \in [Sinks -> Seq(Nat)]
    BY <1>0, <1>6, <1>7, Zenon DEF SinkTypes
  <2> QED BY <1>0, <2>1, Zenon DEF SinkTypes
<1>9. Elsewhere(r)
  BY <1>4, <1>6, Zenon DEF Elsewhere
<1>10. behind[r] <= cap /\ behind'[r] <= cap'
  <2>1. cap \in Nat
    BY <1>0, QueueTypes, Zenon
  <2> QED BY <1>4, <2>1
<1> HIDE DEF e, p, b
<1>11. Good(where[r], written[r], buffer[r], since[r], upto[r], skipped[r], TRUE, p)
  <2>1. (behind[r] <= cap) = TRUE
    BY <1>10, Zenon
  <2> QED BY <1>0, <2>1, Zenon DEF SinkOk, p
<1>12. Good(w, written[r], buffer[r] \o Taken(r), since[r], upto[r], skipped[r], TRUE, Passed(r)')
  <2>1. CASE e.own
    <3>1. Taken(r) = <<>> /\ Passed(r)' = p
      BY <1>2, <1>4, <1>5, <2>1, Zenon
    <3>2. buffer[r] \o Taken(r) = buffer[r]
      BY <1>6, <3>1, Joined, Zenon
    <3>3. Good(w, written[r], buffer[r], since[r], upto[r], skipped[r], TRUE, p)
      BY <1>11, GoodTurns, Zenon
    <3> QED BY <3>1, <3>2, <3>3, Zenon
  <2>2. CASE ~e.own
    <3>1. Taken(r) = <<p + 1>> /\ Passed(r)' = p + 1
      BY <1>2, <1>4, <1>5, <2>2, Zenon
    <3>2. Good(w, written[r], buffer[r] \o <<p + 1>>, since[r], upto[r], skipped[r], TRUE, p + 1)
      BY <1>11, GoodTakes, Zenon
    <3> QED BY <3>1, <3>2, Zenon
  <2> QED BY <2>1, <2>2, Zenon
<1>13. SinkOk(r)'
  <2>1. (behind'[r] <= cap') = TRUE
    BY <1>10, Zenon
  <2> QED BY <1>4, <1>6, <1>12, <2>1, Zenon DEF SinkOk
<1> QED BY <1>4, <1>8, <1>9, <1>13, SinkActs, Zenon

\* An empty batch.
LEMMA EmptySeqNat == <<>> \in Seq(Nat)
  OBVIOUS

\* A sink subscribes at the tail.
LEMMA SinkSubscribes ==
  ASSUME LogInv, NEW r \in Sinks, where[r] = "off", where' = [where EXCEPT ![r] = "loop"],
         since' = [since EXCEPT ![r] = Len(ids)],
         UNCHANGED <<ring, ids, cap, behind, buffer, written, edges, skipped, cleared, upto>>
  PROVE  LogInv'
<1>0. r \in Readers /\ QueueInv /\ SinkTypes /\ SinkOk(r) /\ Len(ids) \in Nat
  <2>1. r \in Readers /\ QueueInv /\ SinkTypes /\ SinkOk(r)
    BY ReadersApart, Zenon DEF LogInv
  <2>2. Len(ids) \in Nat
    BY <2>1, QueueTypes, Zenon DEF QueueInv
  <2> QED BY <2>1, <2>2, Zenon
<1>1. behind' = [behind EXCEPT ![r] = behind[r]] /\ Cursor(ring, behind[r], cap) /\ behind[r] = 0
  BY <1>0, Zenon DEF QueueInv
<1>2. "loop" \in Places /\ "loop" \notin {"off", "idle"}
  BY Zenon DEF Places
<1>3. /\ QueueInv' /\ \A o \in Readers \ {r} : where'[o] = where[o] /\ Moves(o)
      /\ where'[r] = "loop" /\ Passed(r)' = PassedAt(ring, behind[r], Len(ids), cap)
  BY <1>0, <1>1, <1>2, QuietMoves, Zenon
<1>4. Passed(r)' = Len(ids)
  BY <1>1, <1>3, Zenon DEF PassedAt
<1>5. since' \in [Readers -> Nat] /\ since'[r] = Len(ids) /\ \A o \in Readers \ {r} : since'[o] = since[o]
  BY <1>0, Zenon DEF SinkTypes
<1>6. SinkTypes'
  BY <1>0, <1>5, Zenon DEF SinkTypes
<1>7. Elsewhere(r)
  BY <1>3, <1>5, Zenon DEF Elsewhere
<1>8. SinkOk(r)'
  <2>1. Good("off", written[r], buffer[r], since[r], upto[r], skipped[r], behind[r] <= cap, Passed(r))
    BY <1>0, Zenon DEF SinkOk
  <2>2. Good("loop", written[r], buffer[r], Len(ids), upto[r], skipped[r], behind[r] <= cap, Len(ids))
    BY <1>0, <2>1, GoodStarts, Zenon
  <2> QED BY <1>3, <1>4, <1>5, <2>2, Zenon DEF SinkOk
<1> QED BY <1>3, <1>6, <1>7, <1>8, SinkActs, Zenon

\* A sink writes its batch.
LEMMA SinkFlushes ==
  ASSUME LogInv, NEW r \in Sinks, Flush(r)
  PROVE  LogInv'
<1> DEFINE lag == size[r] < batch[r] /\ behind[r] > cap
           b == IF lag THEN cap ELSE behind[r]
           W == written[r] \o buffer[r]
<1>0. r \in Readers /\ QueueInv /\ SinkTypes /\ SinkOk(r) /\ Queue(ring, Len(ids), cap)
      /\ Cursor(ring, behind[r], cap)
  BY ReadersApart, Zenon DEF LogInv, QueueInv
<1>1. /\ where[r] = "greedy" /\ where' = [where EXCEPT ![r] = "loop"]
      /\ ring' = ring /\ ids' = ids /\ cap' = cap /\ edges' = edges /\ since' = since
      /\ cleared' = cleared /\ upto' = upto
      /\ written' = [written EXCEPT ![r] = @ \o buffer[r]] /\ buffer' = [buffer EXCEPT ![r] = <<>>]
  BY Zenon DEF Flush
<1>2. behind' = [behind EXCEPT ![r] = b] /\ skipped' = [skipped EXCEPT ![r] = @ \/ lag]
  BY <1>0, Zenon DEF Flush, QueueInv
<1>3. Cursor(ring, b, cap) /\ PassedAt(ring, b, Len(ids), cap) = PassedAt(ring, behind[r], Len(ids), cap)
  <2>1. behind[r] > cap => /\ Cursor(ring, cap, cap)
                           /\ PassedAt(ring, cap, Len(ids), cap) = PassedAt(ring, behind[r], Len(ids), cap)
    BY <1>0, PassedRange, Zenon
  <2>2. CASE lag
    BY <2>1, <2>2, Zenon
  <2>3. CASE ~lag
    BY <1>0, <2>3, Zenon
  <2> QED BY <2>2, <2>3, Zenon
<1>4. "loop" \in Places /\ "loop" \notin {"off", "idle"} /\ Active("loop") /\ Active("greedy")
  BY Zenon DEF Places, Active
<1>5. /\ QueueInv' /\ \A o \in Readers \ {r} : where'[o] = where[o] /\ Moves(o)
      /\ behind'[r] = b /\ where'[r] = "loop" /\ Passed(r)' = PassedAt(ring, b, Len(ids), cap)
  <2> HIDE DEF b, lag
  <2> QED BY <1>0, <1>1, <1>2, <1>3, <1>4, QuietMoves, Zenon
<1>6. Passed(r)' = Passed(r) /\ Passed(r) \in Nat /\ Passed(r) <= Passed(r)
  <2>1. Passed(r)' = Passed(r)
    BY <1>3, <1>5, PassedIs, Zenon
  <2>2. Passed(r) \in Nat
    BY <1>0, PassedNat, Zenon
  <2>3. Passed(r) <= Passed(r)
    BY <2>2
  <2> QED BY <2>1, <2>2, <2>3, Zenon
<1>7. written[r] \in Seq(Nat) /\ buffer[r] \in Seq(Nat) /\ skipped[r] \in BOOLEAN
  BY <1>0, Zenon DEF SinkTypes
<1>8. W \in Seq(Nat) /\ W \o <<>> = W /\ <<>> \in Seq(Nat)
  <2>1. W \in Seq(Nat) /\ <<>> \in Seq(Nat)
    BY <1>7, Joined, EmptySeqNat, Zenon
  <2> HIDE DEF W
  <2> QED BY <2>1, Joined, Zenon
<1>9. /\ written'[r] = W /\ buffer'[r] = <<>> /\ (skipped'[r] <=> skipped[r] \/ lag)
      /\ \A o \in Sinks \ {r} : written'[o] = written[o] /\ buffer'[o] = buffer[o]
      /\ \A o \in Readers \ {r} : skipped'[o] = skipped[o]
  BY <1>0, <1>1, <1>2, Zenon DEF SinkTypes
<1>10. SinkTypes'
  <2>1. written' \in [Sinks -> Seq(Nat)] /\ buffer' \in [Sinks -> Seq(Nat)]
    <3> HIDE DEF W
    <3> QED BY <1>0, <1>1, <1>8, <1>9, Zenon DEF SinkTypes
  <2>2. skipped' \in [Readers -> BOOLEAN]
    BY <1>0, <1>2, <1>7, Zenon DEF SinkTypes
  <2> QED BY <1>0, <1>1, <2>1, <2>2, Zenon DEF SinkTypes
<1>11. Elsewhere(r)
  BY <1>1, <1>5, <1>9, Zenon DEF Elsewhere
<1>12. SinkOk(r)'
  <2> DEFINE in == behind[r] <= cap
             in2 == behind'[r] <= cap'
             k2 == skipped'[r]
             p == Passed(r)
  <2>1. Good("greedy", written[r], buffer[r], since[r], upto[r], skipped[r], in, p)
    BY <1>0, <1>1, Zenon DEF SinkOk
  <2>2. ~k2 /\ in2 => ~skipped[r] /\ in
    <3>1. ~lag => b = behind[r]
      BY Zenon
    <3> QED BY <1>1, <1>5, <1>9, <3>1, Zenon
  <2> HIDE DEF in, in2, k2, p, W, lag, b
  <2>3. W \o <<>> = written[r] \o buffer[r]
    BY <1>8, Zenon DEF W
  <2>4. Good("loop", W, <<>>, since[r], upto[r], k2, in2, p)
    <3>1. Active("greedy") /\ Active("loop") /\ p \in Nat /\ p <= p /\ W \in Seq(Nat) /\ <<>> \in Seq(Nat)
      BY <1>4, <1>6, <1>8, Zenon DEF p
    <3>2. ~k2 /\ in2 => ~skipped[r] /\ in /\ p = p
      BY <2>2, Zenon
    <3> QED BY <2>1, <2>3, <3>1, <3>2, GoodStays, Zenon
  <2> QED BY <1>1, <1>5, <1>6, <1>9, <2>4, Zenon DEF SinkOk, in2, k2, p
<1> QED BY <1>1, <1>5, <1>10, <1>11, <1>12, SinkActs, Zenon

\* What a lagging cursor's move and the warning after it leave.
LEMMA LagMoves ==
  ASSUME QueueInv, SinkTypes, NEW r \in Readers, Active(where[r]), behind[r] > cap,
         Note([behind EXCEPT ![r] = cap]), ids' = ids, cap' = cap,
         NEW w \in Places, w \notin {"off", "idle"}, where' = [where EXCEPT ![r] = w]
  PROVE  /\ QueueInv' /\ \A o \in Readers \ {r} : where'[o] = where[o] /\ Moves(o)
         /\ where'[r] = w /\ Passed(r)' \in Nat /\ Passed(r) <= Passed(r)'
<1>1. Queue(ring, Len(ids), cap) /\ Cursor(ring, behind[r], cap)
  BY Zenon DEF QueueInv
<1>2. Cursor(ring, cap, cap) /\ PassedAt(ring, cap, Len(ids), cap) = PassedAt(ring, behind[r], Len(ids), cap)
  BY <1>1, PassedRange, Zenon
<1>3. /\ QueueInv' /\ \A o \in Readers \ {r} : where'[o] = where[o] /\ Moves(o)
      /\ where'[r] = w /\ Passed(r)' \in Nat /\ PassedAt(ring, cap, Len(ids), cap) <= Passed(r)'
  BY <1>2, NoteMoves, Zenon
<1>4. PassedAt(ring, cap, Len(ids), cap) = Passed(r)
  BY <1>2, PassedIs, Zenon
<1> QED BY <1>3, <1>4, Zenon

\* Lagged: the sink skips what is gone and notes it on the same queue.
LEMMA SinkLags ==
  ASSUME LogInv, NEW r \in Sinks, Lagged(r)
  PROVE  LogInv'
<1>0. r \in Readers /\ r # Collector /\ QueueInv /\ SinkTypes /\ SinkOk(r)
  BY ReadersApart, Zenon DEF LogInv
<1>1. /\ where[r] \in {"poll", "collect"} /\ behind[r] > cap /\ Note([behind EXCEPT ![r] = cap])
      /\ skipped' = [skipped EXCEPT ![r] = TRUE] /\ where' = [where EXCEPT ![r] = "loop"]
      /\ ids' = ids /\ cap' = cap /\ buffer' = buffer /\ written' = written /\ edges' = edges
      /\ since' = since /\ cleared' = cleared /\ upto' = upto
  BY <1>0, Zenon DEF Lagged
<1>2. Active(where[r]) /\ Active("loop") /\ "loop" \in Places /\ "loop" \notin {"off", "idle"}
  BY <1>1, Zenon DEF Active, Places
<1>3. /\ QueueInv' /\ \A o \in Readers \ {r} : where'[o] = where[o] /\ Moves(o)
      /\ where'[r] = "loop" /\ Passed(r)' \in Nat /\ Passed(r) <= Passed(r)'
  BY <1>0, <1>1, <1>2, LagMoves, Zenon
<1>4. /\ skipped' \in [Readers -> BOOLEAN] /\ skipped'[r] = TRUE
      /\ \A o \in Readers \ {r} : skipped'[o] = skipped[o]
  BY <1>0, <1>1, Zenon DEF SinkTypes
<1>5. SinkTypes'
  BY <1>0, <1>1, <1>4, Zenon DEF SinkTypes
<1>6. Elsewhere(r)
  BY <1>1, <1>3, <1>4, Zenon DEF Elsewhere
<1>7. SinkOk(r)'
  <2> DEFINE in == behind[r] <= cap
             in2 == behind'[r] <= cap'
             p == Passed(r)
             p2 == Passed(r)'
  <2>1. /\ Good(where[r], written[r], buffer[r], since[r], upto[r], skipped[r], in, p)
        /\ written[r] \in Seq(Nat) /\ buffer[r] \in Seq(Nat)
    BY <1>0, Zenon DEF SinkOk, SinkTypes
  <2>2. p <= p2 /\ p2 \in Nat
    BY <1>3, Zenon
  <2> HIDE DEF in, in2, p, p2
  <2>3. Good("loop", written[r], buffer[r], since[r], upto[r], TRUE, in2, p2)
    BY <1>2, <2>1, <2>2, GoodStays, Zenon
  <2> QED BY <1>1, <1>3, <1>4, <2>3, Zenon DEF SinkOk, in2, p2
<1> QED BY <1>1, <1>3, <1>5, <1>6, <1>7, SinkActs, Zenon

\* The last drain ends.
LEMMA SinkEnds ==
  ASSUME LogInv, NEW r \in Sinks, FinalEnd(r)
  PROVE  LogInv'
<1> DEFINE W == written[r] \o buffer[r]
<1>0. /\ r \in Readers /\ QueueInv /\ SinkTypes /\ SinkOk(r) /\ Queue(ring, Len(ids), cap)
      /\ Cursor(ring, behind[r], cap)
  BY ReadersApart, Zenon DEF LogInv, QueueInv
<1>1. /\ where[r] = "final" /\ behind[r] \notin 1 .. cap /\ Note([behind EXCEPT ![r] = 0])
      /\ written' = [written EXCEPT ![r] = @ \o buffer[r]] /\ buffer' = [buffer EXCEPT ![r] = <<>>]
      /\ skipped' = [skipped EXCEPT ![r] = @ \/ behind[r] > cap]
      /\ upto' = [upto EXCEPT ![r] = Len(ids)] /\ where' = [where EXCEPT ![r] = "stopped"]
      /\ ids' = ids /\ cap' = cap /\ edges' = edges /\ since' = since /\ cleared' = cleared
  BY Zenon DEF FinalEnd
<1>2. Len(ids) \in Nat /\ cap \in Nat /\ Len(ring) \in Nat
  BY <1>0, QueueTypes
<1>3. Cursor(ring, 0, cap)
  BY <1>2 DEF Cursor
<1>4. Active("final") /\ "stopped" \in Places /\ "stopped" \notin {"off", "idle"}
  BY Zenon DEF Active, Places
<1>5. /\ QueueInv' /\ \A o \in Readers \ {r} : where'[o] = where[o] /\ Moves(o)
      /\ where'[r] = "stopped" /\ Passed(r)' \in Nat
  BY <1>0, <1>1, <1>3, <1>4, NoteMoves, Zenon
<1>6. written[r] \in Seq(Nat) /\ buffer[r] \in Seq(Nat) /\ skipped[r] \in BOOLEAN
  BY <1>0, Zenon DEF SinkTypes
<1>7. W \in Seq(Nat) /\ <<>> \in Seq(Nat)
  BY <1>6, Joined, EmptySeqNat, Zenon
<1>8. /\ written'[r] = W /\ buffer'[r] = <<>> /\ (skipped'[r] <=> skipped[r] \/ behind[r] > cap)
      /\ upto'[r] = Len(ids)
      /\ \A o \in Sinks \ {r} : written'[o] = written[o] /\ buffer'[o] = buffer[o] /\ upto'[o] = upto[o]
      /\ \A o \in Readers \ {r} : skipped'[o] = skipped[o]
  BY <1>0, <1>1, Zenon DEF SinkTypes
<1>9. SinkTypes'
  <2>1. written' \in [Sinks -> Seq(Nat)] /\ buffer' \in [Sinks -> Seq(Nat)] /\ upto' \in [Sinks -> Nat]
    <3> HIDE DEF W
    <3> QED BY <1>0, <1>1, <1>2, <1>7, <1>8, Zenon DEF SinkTypes
  <2>2. skipped' \in [Readers -> BOOLEAN]
    BY <1>0, <1>1, <1>6, Zenon DEF SinkTypes
  <2> QED BY <1>0, <1>1, <2>1, <2>2, Zenon DEF SinkTypes
<1>10. Elsewhere(r)
  BY <1>1, <1>5, <1>8, Zenon DEF Elsewhere
<1>11. SinkOk(r)'
  <2> DEFINE in == behind[r] <= cap
             in2 == behind'[r] <= cap'
             k2 == skipped'[r]
             p == Passed(r)
             p2 == Passed(r)'
  <2>1. Good("final", written[r], buffer[r], since[r], upto[r], skipped[r], in, p) /\ p2 \in Nat
    BY <1>0, <1>1, <1>5, Zenon DEF SinkOk
  <2>2. ~k2 => ~skipped[r] /\ in /\ Len(ids) = p
    <3> SUFFICES ASSUME ~k2 PROVE ~skipped[r] /\ in /\ Len(ids) = p
      BY Zenon
    <3>1. ~skipped[r] /\ ~(behind[r] > cap)
      BY <1>8, Zenon
    <3>2. behind[r] = 0 /\ behind[r] <= cap
      BY <1>0, <1>1, <1>2, <3>1 DEF Cursor
    <3>3. Passed(r) = Len(ids)
      BY <3>2, PassedIs, Zenon DEF PassedAt
    <3> QED BY <3>1, <3>2, <3>3, Zenon
  <2> HIDE DEF in, in2, k2, p, p2, W
  <2>3. Good("stopped", written[r] \o buffer[r], <<>>, since[r], Len(ids), k2, in2, p2)
    <3> DEFINE n == Len(ids)
    <3>1. Active("final") /\ n \in Nat /\ Drained(k2, skipped[r], in, n, p)
      BY <1>2, <1>4, <2>2, Zenon DEF Drained
    <3> HIDE DEF n
    <3>2. Good("stopped", written[r] \o buffer[r], <<>>, since[r], n, k2, in2, p2)
      BY <2>1, <3>1, GoodEnds, Zenon
    <3> QED BY <3>2, Zenon DEF n
  <2> QED BY <1>1, <1>5, <1>8, <2>3, Zenon DEF SinkOk, in2, k2, p2, W
<1> QED BY <1>1, <1>5, <1>9, <1>10, <1>11, SinkActs, Zenon

\* A step of the collector that changes only its own place and cursor.
LEMMA CollectorTypes ==
  ASSUME SinkTypes, UNCHANGED <<buffer, written, skipped, upto>>, since' \in [Readers -> Nat]
  PROVE  SinkTypes'
  BY Zenon DEF SinkTypes

\* The collector subscribes at the tail, with an empty table.
LEMMA CollectorBegins ==
  ASSUME LogInv, CollectorStarts
  PROVE  LogInv'
<1> DEFINE r == Collector
<1>0. r \in Readers /\ r \notin Sinks /\ QueueInv /\ SinkTypes /\ CollectorOk
  BY ReadersApart, Zenon DEF LogInv
<1>n. Len(ids) \in Nat
  BY <1>0, QueueTypes, Zenon DEF QueueInv
<1>1. /\ where[r] = "off" /\ where' = [where EXCEPT ![r] = "collect"]
      /\ since' = [since EXCEPT ![r] = Len(ids)] /\ cleared' = Len(ids)
      /\ ring' = ring /\ ids' = ids /\ cap' = cap /\ behind' = behind /\ edges' = edges
      /\ buffer' = buffer /\ written' = written /\ skipped' = skipped /\ upto' = upto
  BY Zenon DEF CollectorStarts
<1>2. behind' = [behind EXCEPT ![r] = behind[r]] /\ Cursor(ring, behind[r], cap) /\ behind[r] = 0
  BY <1>0, <1>1, Zenon DEF QueueInv
<1>3. "collect" \in Places /\ "collect" \notin {"off", "idle"}
  BY Zenon DEF Places
<1>4. /\ QueueInv' /\ \A o \in Readers \ {r} : where'[o] = where[o] /\ Moves(o)
      /\ where'[r] = "collect" /\ Passed(r)' = PassedAt(ring, behind[r], Len(ids), cap)
  BY <1>0, <1>1, <1>2, <1>3, QuietMoves, Zenon
<1>5. Passed(r)' = Len(ids)
  BY <1>2, <1>4, Zenon DEF PassedAt
<1>6. since' \in [Readers -> Nat] /\ \A o \in Readers \ {r} : since'[o] = since[o]
  BY <1>0, <1>1, <1>n, Zenon DEF SinkTypes
<1>7. SinkTypes'
  BY <1>0, <1>1, <1>6, CollectorTypes, Zenon
<1>8. Elsewhere(r)
  BY <1>0, <1>1, <1>4, <1>6, Zenon DEF Elsewhere
<1>9. CollectorOk'
  <2>1. DOMAIN edges = {}
    BY <1>0, <1>1, Zenon DEF CollectorOk
  <2>2. Tally(edges, ids, Len(ids), Len(ids)) /\ Len(ids) <= Len(ids)
    BY <1>n, <2>1, TallyStarts
  <2> QED BY <1>1, <1>4, <1>5, <1>n, <2>2, Zenon DEF CollectorOk
<1> QED BY <1>4, <1>7, <1>8, <1>9, CollectorActs, Zenon

\* Collect: one event, counted when it is an edge.
LEMMA CollectorCounts ==
  ASSUME LogInv, Collect
  PROVE  LogInv'
<1> DEFINE r == Collector
           b == behind[r]
           e == AtCursor(r)
           p == Passed(r)
<1>0. /\ r \in Readers /\ r \notin Sinks /\ QueueInv /\ SinkTypes /\ CollectorOk
      /\ Queue(ring, Len(ids), cap) /\ Cursor(ring, behind[r], cap)
  BY ReadersApart, Zenon DEF LogInv, QueueInv
<1>1. /\ where[r] = "collect" /\ behind[r] \in 1 .. cap
      /\ edges' = IF ~e.own /\ IsEdge(e.n) THEN Counted(ids[e.n]) ELSE edges
      /\ behind' = [behind EXCEPT ![r] = @ - 1]
      /\ ring' = ring /\ ids' = ids /\ cap' = cap /\ where' = where /\ cleared' = cleared
      /\ buffer' = buffer /\ written' = written /\ since' = since /\ skipped' = skipped /\ upto' = upto
  BY Zenon DEF Collect
<1>2. e = ring[Len(ring) - b + 1] /\ p = PassedAt(ring, b, Len(ids), cap)
  BY PassedIs, Zenon DEF AtCursor
<1>3. /\ Cursor(ring, b - 1, cap) /\ p \in Nat
      /\ PassedAt(ring, b - 1, Len(ids), cap) = IF e.own THEN p ELSE e.n
      /\ ~e.own => e.n = p + 1
  <2> DEFINE f == ring[Len(ring) - b + 1]
             g == PassedAt(ring, b, Len(ids), cap)
  <2>1. /\ Cursor(ring, b - 1, cap) /\ g \in Nat
        /\ PassedAt(ring, b - 1, Len(ids), cap) = IF f.own THEN g ELSE f.n
        /\ ~f.own => f.n = g + 1
    <3>1. Received(ring, Len(ids), cap, behind[r])
      BY <1>0, <1>1, RecvMoves, Zenon
    <3> QED BY <3>1, Zenon DEF Received
  <2> HIDE DEF e, p, f, g
  <2>2. f = e /\ g = p
    BY <1>2, Zenon DEF f, g
  <2> QED BY <2>1, <2>2, Zenon
<1>4. where' = [where EXCEPT ![r] = "collect"] /\ "collect" \in Places /\ "collect" \notin {"off", "idle"}
      /\ behind' = [behind EXCEPT ![r] = b - 1]
  BY <1>0, <1>1, Zenon DEF QueueInv, Places
<1>5. /\ QueueInv' /\ \A o \in Readers \ {r} : where'[o] = where[o] /\ Moves(o)
      /\ where'[r] = "collect" /\ Passed(r)' = PassedAt(ring, b - 1, Len(ids), cap)
  <2> DEFINE c == b - 1
  <2>1. Cursor(ring, c, cap) /\ behind' = [behind EXCEPT ![r] = c]
    BY <1>3, <1>4, Zenon
  <2> HIDE DEF c
  <2>2. /\ QueueInv' /\ \A o \in Readers \ {r} : where'[o] = where[o] /\ Moves(o)
        /\ where'[r] = "collect" /\ Passed(r)' = PassedAt(ring, c, Len(ids), cap)
    BY <1>0, <1>1, <1>4, <2>1, QuietMoves, Zenon
  <2> QED BY <2>2, Zenon DEF c
<1>6. SinkTypes'
  BY <1>0, <1>1, Zenon DEF SinkTypes
<1>7. Elsewhere(r)
  BY <1>0, <1>1, <1>5, Zenon DEF Elsewhere
<1>8. cleared \in Nat /\ cleared <= p /\ (~skipped[r] => Tally(edges, ids, cleared, p))
  <2>1. behind[r] <= cap
    <3>1. cap \in Nat
      BY <1>0, QueueTypes, Zenon
    <3> QED BY <1>1, <3>1
  <2> QED BY <1>0, <1>1, <2>1, Zenon DEF CollectorOk
<1>9. Passed(r)' = IF e.own THEN p ELSE p + 1
  BY <1>3, <1>5, Zenon
<1> HIDE DEF e, p, b
<1>10. cleared <= Passed(r)'
  BY <1>3, <1>8, <1>9
<1>11. ~skipped[r] => Tally(edges', ids, cleared, Passed(r)')
  <2> SUFFICES ASSUME ~skipped[r] PROVE Tally(edges', ids, cleared, Passed(r)')
    BY Zenon
  <2>1. Tally(edges, ids, cleared, p)
    BY <1>8, Zenon
  <2>2. CASE e.own
    BY <1>1, <1>9, <2>1, <2>2, Zenon
  <2>3. CASE ~e.own
    <3> DEFINE q == ids[p + 1]
               F == [x \in DOMAIN edges \cup {q} |-> IF x = q THEN CountIn(edges, q) + 1 ELSE edges[x]]
    <3>1. Tally(IF Edge(q) THEN F ELSE edges, ids, cleared, p + 1)
      BY <1>3, <1>8, <2>1, TallyTakes, Zenon
    <3>2. ids[e.n] = q /\ (IsEdge(e.n) <=> Edge(q))
      BY <1>3, <2>3, Zenon DEF IsEdge, Edge
    <3>3. Counted(q) = F
      BY Zenon DEF Counted, CountOf, CountIn
    <3> HIDE DEF F, q
    <3>4. edges' = IF Edge(q) THEN F ELSE edges
      BY <1>1, <2>3, <3>2, <3>3, Zenon
    <3> QED BY <1>9, <2>3, <3>1, <3>4, Zenon
  <2> QED BY <2>2, <2>3, Zenon
<1>12. CollectorOk'
  BY <1>1, <1>5, <1>8, <1>10, <1>11, Zenon DEF CollectorOk
<1> QED BY <1>5, <1>6, <1>7, <1>12, CollectorActs, Zenon

\* Lagged for the collector: from now on its counts are not those of all events.
LEMMA CollectorLags ==
  ASSUME LogInv, Lagged(Collector)
  PROVE  LogInv'
<1> DEFINE r == Collector
<1>0. r \in Readers /\ r \notin Sinks /\ QueueInv /\ SinkTypes /\ CollectorOk
  BY ReadersApart, Zenon DEF LogInv
<1>1. /\ where[r] \in {"poll", "collect"} /\ behind[r] > cap /\ Note([behind EXCEPT ![r] = cap])
      /\ skipped' = [skipped EXCEPT ![r] = TRUE] /\ where' = [where EXCEPT ![r] = "collect"]
      /\ ids' = ids /\ cap' = cap /\ buffer' = buffer /\ written' = written /\ edges' = edges
      /\ since' = since /\ cleared' = cleared /\ upto' = upto
  BY Zenon DEF Lagged
<1>2. Active(where[r]) /\ "collect" \in Places /\ "collect" \notin {"off", "idle"} /\ where[r] = "collect"
  BY <1>0, <1>1, Zenon DEF Active, Places, CollectorOk
<1>3. /\ QueueInv' /\ \A o \in Readers \ {r} : where'[o] = where[o] /\ Moves(o)
      /\ where'[r] = "collect" /\ Passed(r)' \in Nat /\ Passed(r) <= Passed(r)'
  BY <1>0, <1>1, <1>2, LagMoves, Zenon
<1>4. /\ skipped' \in [Readers -> BOOLEAN] /\ skipped'[r] = TRUE
      /\ \A o \in Readers \ {r} : skipped'[o] = skipped[o]
  BY <1>0, <1>1, Zenon DEF SinkTypes
<1>5. SinkTypes'
  BY <1>0, <1>1, <1>4, Zenon DEF SinkTypes
<1>6. Elsewhere(r)
  BY <1>0, <1>1, <1>3, <1>4, Zenon DEF Elsewhere
<1>7. CollectorOk'
  <2>1. cleared \in Nat /\ cleared <= Passed(r) /\ Passed(r) \in Nat
    BY <1>0, <1>2, PassedNat, Zenon DEF CollectorOk
  <2>2. cleared <= Passed(r)'
    BY <1>3, <2>1
  <2> QED BY <1>1, <1>3, <1>4, <2>1, <2>2, Zenon DEF CollectorOk
<1> QED BY <1>3, <1>5, <1>6, <1>7, CollectorActs, Zenon

\* Reset: the counts start again from where the collector is.
LEMMA CollectorResets ==
  ASSUME LogInv, Reset
  PROVE  LogInv'
<1> DEFINE r == Collector
<1>0. r \in Readers /\ r \notin Sinks /\ QueueInv /\ SinkTypes /\ CollectorOk
  BY ReadersApart, Zenon DEF LogInv
<1>1. /\ DOMAIN edges # {} /\ edges' = <<>> /\ cleared' = Passed(r)
      /\ ring' = ring /\ ids' = ids /\ cap' = cap /\ where' = where /\ behind' = behind
      /\ buffer' = buffer /\ written' = written /\ since' = since /\ skipped' = skipped /\ upto' = upto
  BY Zenon DEF Reset
<1>2. where[r] = "collect"
  BY <1>0, <1>1, Zenon DEF CollectorOk
<1>3. /\ where' = [where EXCEPT ![r] = "collect"] /\ "collect" \in Places /\ "collect" \notin {"off", "idle"}
      /\ behind' = [behind EXCEPT ![r] = behind[r]] /\ Cursor(ring, behind[r], cap)
  BY <1>0, <1>1, <1>2, Zenon DEF QueueInv, Places
<1>4. /\ QueueInv' /\ \A o \in Readers \ {r} : where'[o] = where[o] /\ Moves(o)
      /\ where'[r] = "collect" /\ Passed(r)' = PassedAt(ring, behind[r], Len(ids), cap) /\ Passed(r)' \in Nat
  BY <1>0, <1>1, <1>3, QuietMoves, Zenon
<1>5. Passed(r)' = Passed(r) /\ Passed(r) \in Nat
  BY <1>4, PassedIs, Zenon
<1>6. SinkTypes'
  BY <1>0, <1>1, Zenon DEF SinkTypes
<1>7. Elsewhere(r)
  BY <1>0, <1>1, <1>4, Zenon DEF Elsewhere
<1>8. CollectorOk'
  <2> DEFINE p == Passed(r)
  <2>1. DOMAIN edges' = {}
    BY <1>1
  <2>2. p \in Nat
    BY <1>5, Zenon
  <2> HIDE DEF p
  <2>3. Tally(edges', ids, p, p) /\ p <= p
    BY <2>1, <2>2, TallyStarts
  <2> QED BY <1>1, <1>4, <1>5, <2>2, <2>3, Zenon DEF CollectorOk, p
<1> QED BY <1>4, <1>6, <1>7, <1>8, CollectorActs, Zenon

\* Emit: every reader is left with what it had.
LEMMA EmitKeeps ==
  ASSUME LogInv, Emit
  PROVE  LogInv'
<1>0. QueueInv /\ SinkTypes /\ CollectorOk /\ \A o \in Sinks : SinkOk(o)
  BY Zenon DEF LogInv
<1>1. /\ QueueInv' /\ \A o \in Readers : Moves(o)
      /\ \A e \in 1 .. Len(ids) : ids'[e] = ids[e]
  BY <1>0, EmitMoves, Zenon
<1>2. /\ where' = where /\ buffer' = buffer /\ written' = written /\ edges' = edges /\ since' = since
      /\ skipped' = skipped /\ cleared' = cleared /\ upto' = upto
  BY Zenon DEF Emit
<1>3. SinkTypes'
  BY <1>0, <1>2, Zenon DEF SinkTypes
<1>4. ASSUME NEW o \in Sinks PROVE SinkOk(o)'
  <2>1. SinkOk(o) /\ Moves(o)
    BY <1>0, <1>1, ReadersApart, Zenon
  <2> QED BY <1>0, <1>2, <2>1, SinkKept, Zenon
<1>5. CollectorOk'
  <2>1. Moves(Collector)
    BY <1>1, ReadersApart, Zenon
  <2> QED BY <1>0, <1>1, <1>2, <2>1, CollectorKept, Zenon
<1> QED BY <1>1, <1>3, <1>4, <1>5, Zenon DEF LogInv

\* Shutdown, and a step that changes nothing.
LEMMA OthersKeep ==
  ASSUME LogInv, UNCHANGED <<cap, ring, ids, where, behind, buffer, written, edges, since, upto,
                             skipped, cleared>>
  PROVE  LogInv'
<1>1. \A r : Passed(r)' = Passed(r)
  BY Zenon DEF Passed, AtCursor
<1>2. QueueInv'
  BY Zenon DEF LogInv, QueueInv, Readers
<1>3. SinkTypes'
  BY Zenon DEF LogInv, SinkTypes, Readers
<1>4. ASSUME NEW r \in Sinks PROVE SinkOk(r)'
  BY <1>1, Zenon DEF LogInv, SinkOk
<1>5. CollectorOk'
  BY <1>1, Zenon DEF LogInv, CollectorOk
<1> QED BY <1>2, <1>3, <1>4, <1>5, Zenon DEF LogInv

\* Before anything is published nobody has read anything.
LEMMA LogInvInit == LogInit => LogInv
<1> SUFFICES ASSUME LogInit PROVE LogInv
  BY Zenon
<1>1. PICK n \in BatchSizes : cap = Multiplier * n
  BY Zenon DEF LogInit
<1>2. cap \in Nat \ {0}
  <2>1. n \in Nat \ {0} /\ Multiplier \in Nat \ {0}
    BY LogAssumption, Zenon
  <2> QED BY <1>1, <2>1
<1>3. /\ ring = <<>> /\ ids = <<>> /\ where = [r \in Readers |-> "off"] /\ behind = [r \in Readers |-> 0]
      /\ buffer = [r \in Sinks |-> <<>>] /\ written = [r \in Sinks |-> <<>>] /\ edges = <<>>
      /\ since = [r \in Readers |-> 0] /\ skipped = [r \in Readers |-> FALSE] /\ cleared = 0
      /\ upto = [r \in Sinks |-> 0]
  BY Zenon DEF LogInit
<1>4. Len(ring) = 0 /\ Len(ids) = 0 /\ ring \in Seq(Events) /\ DOMAIN edges = {} /\ 0 \in Nat
  BY <1>3
<1>5. Queue(ring, Len(ids), cap)
  <2>1. 1 .. 0 = {} /\ 1 .. 0 - 1 = {} /\ ~(0 > 0)
    OBVIOUS
  <2>2. Ends(ring, Len(ids)) /\ Rises(ring) /\ Follows(ring) /\ Holds(ring, Len(ids))
    BY <1>4, <2>1, Zenon DEF Ends, Rises, Follows, Holds
  <2>3. Len(ring) <= cap
    BY <1>2, <1>4
  <2> QED BY <1>2, <1>4, <2>2, <2>3, Zenon DEF Queue
<1>6. Cursor(ring, 0, cap)
  BY <1>2, <1>4 DEF Cursor
<1>7. ids \in Seq(Pairs)
  BY <1>3
<1>8. \A r \in Readers : where[r] = "off" /\ behind[r] = 0
  BY <1>3, Zenon
<1>9. QueueInv
  <2>1. where \in [Readers -> Places] /\ behind \in [Readers -> Nat]
    BY <1>3, <1>4, Zenon DEF Places
  <2> QED BY <1>5, <1>6, <1>7, <1>8, <2>1, Zenon DEF QueueInv
<1>10. <<>> \in Seq(Nat) /\ <<>> \o <<>> = <<>> /\ DOMAIN <<>> = {}
  OBVIOUS
<1>11. SinkTypes
  BY <1>3, <1>4, <1>10, Zenon DEF SinkTypes
<1>12. ASSUME NEW r \in Sinks PROVE SinkOk(r)
  <2>1. written[r] = <<>> /\ buffer[r] = <<>> /\ since[r] = 0 /\ upto[r] = 0 /\ where[r] = "off"
    BY <1>3, ReadersApart, Zenon
  <2>2. Passed(r) \in Nat
    BY <1>9, PassedNat, ReadersApart, Zenon
  <2>3. ~Active("off") /\ "off" # "stopped"
    BY Zenon DEF Active
  <2>4. Rising(<<>>)
    BY <1>10, Zenon DEF Rising
  <2> QED BY <1>4, <1>10, <2>1, <2>2, <2>3, <2>4, Zenon DEF SinkOk, Good
<1>13. CollectorOk
  <2>1. where[Collector] = "off" /\ "off" # "collect"
    BY <1>8, ReadersApart, Zenon
  <2> QED BY <1>3, <1>4, <2>1, Zenon DEF CollectorOk
<1> QED BY <1>9, <1>11, <1>12, <1>13, Zenon DEF LogInv

\* Every step of the log queue and its readers keeps the invariant.
LEMMA LogInvStep == LogInv /\ [LogNext]_logvars => LogInv'
<1> SUFFICES ASSUME LogInv, [LogNext]_logvars PROVE LogInv'
  BY Zenon
<1>w. where \in [Readers -> Places]
  BY Zenon DEF LogInv, QueueInv
<1>1. CASE Emit
  BY <1>1, EmitKeeps, Zenon
<1>2. ASSUME NEW r \in Sinks, SinkStarts(r) PROVE LogInv'
  <2>1. CASE where' = [where EXCEPT ![r] = "idle"] /\ since' = since
    <3>1. "idle" \in Places /\ where[r] \in {"off", "idle"} /\ "idle" \in {"idle", "returned"}
      BY <1>2, Zenon DEF SinkStarts, Places
    <3>2. UNCHANGED <<ring, ids, cap, behind, buffer, written, edges, since, skipped, cleared, upto>>
      BY <1>2, <2>1, Zenon DEF SinkStarts
    <3> QED BY <2>1, <3>1, <3>2, SinkTurns, Zenon
  <2>2. CASE where' = [where EXCEPT ![r] = "loop"] /\ since' = [since EXCEPT ![r] = Len(ids)]
    <3>1. /\ where[r] = "off"
          /\ UNCHANGED <<ring, ids, cap, behind, buffer, written, edges, skipped, cleared, upto>>
      BY <1>2, Zenon DEF SinkStarts
    <3> QED BY <2>2, <3>1, SinkSubscribes, Zenon
  <2> QED BY <1>2, <2>1, <2>2, Zenon DEF SinkStarts
<1>3. ASSUME NEW r \in Sinks, Poll(r) PROVE LogInv'
  <2>1. Active(where[r]) /\ Active("poll") /\ "poll" \in Places
    BY <1>3, Zenon DEF Poll, Active, Places
  <2>2. /\ where' = [where EXCEPT ![r] = "poll"]
        /\ UNCHANGED <<ring, ids, cap, behind, buffer, written, edges, since, skipped, cleared, upto>>
    BY <1>3, Zenon DEF Poll
  <2> QED BY <2>1, <2>2, SinkTurns, Zenon
<1>4. ASSUME NEW r \in Sinks, Recv(r) PROVE LogInv'
  <2>1. Active(where[r]) /\ Active("greedy") /\ "greedy" \in Places
    BY <1>4, Zenon DEF Recv, Active, Places
  <2>2. /\ where' = [where EXCEPT ![r] = "greedy"] /\ behind[r] \in 1 .. cap
        /\ behind' = [behind EXCEPT ![r] = @ - 1] /\ buffer' = [buffer EXCEPT ![r] = @ \o Taken(r)]
        /\ UNCHANGED <<ring, ids, cap, written, edges, since, skipped, cleared, upto>>
    BY <1>4, Zenon DEF Recv
  <2> QED BY <2>1, <2>2, SinkTakes, Zenon
<1>5. ASSUME NEW r \in Sinks, Greedy(r) \/ FinalRecv(r) PROVE LogInv'
  <2>1. Active(where[r]) /\ where[r] \in Places
    BY <1>5, <1>w, ReadersApart, Zenon DEF Greedy, FinalRecv, Active
  <2>2. /\ where' = where /\ behind[r] \in 1 .. cap
        /\ behind' = [behind EXCEPT ![r] = @ - 1] /\ buffer' = [buffer EXCEPT ![r] = @ \o Taken(r)]
        /\ UNCHANGED <<ring, ids, cap, written, edges, since, skipped, cleared, upto>>
    BY <1>5, Zenon DEF Greedy, FinalRecv
  <2>3. where' = [where EXCEPT ![r] = where[r]]
    BY <1>w, <2>2, Zenon
  <2> QED BY <2>1, <2>2, <2>3, SinkTakes, Zenon
<1>6. ASSUME NEW r \in Sinks, Break(r) PROVE LogInv'
  <2> DEFINE w == IF where[r] = "idle" THEN "returned" ELSE "final"
  <2>1. /\ where' = [where EXCEPT ![r] = w]
        /\ UNCHANGED <<ring, ids, cap, behind, buffer, written, edges, since, skipped, cleared, upto>>
    BY <1>6, Zenon DEF Break
  <2>2. /\ w \in Places
        /\ (Active(where[r]) /\ Active(w)) \/ (where[r] \in {"off", "idle"} /\ w \in {"idle", "returned"})
    BY <1>6, Zenon DEF Break, Active, Places
  <2> HIDE DEF w
  <2> QED BY <2>1, <2>2, SinkTurns, Zenon
<1>7. CASE LogShutdown
  <2>1. UNCHANGED <<cap, ring, ids, where, behind, buffer, written, edges, since, upto, skipped, cleared>>
    BY <1>7, Zenon DEF LogShutdown
  <2> QED BY <2>1, OthersKeep, Zenon
<1>8. CASE UNCHANGED logvars
  <2>1. UNCHANGED <<cap, ring, ids, where, behind, buffer, written, edges, since, upto, skipped, cleared>>
    BY <1>8, Zenon DEF logvars
  <2> QED BY <2>1, OthersKeep, Zenon
<1>9. ASSUME NEW r \in Sinks, SinkStep(r) PROVE LogInv'
  BY <1>3, <1>4, <1>5, <1>6, <1>9, SinkLags, SinkFlushes, SinkEnds, Zenon DEF SinkStep
<1> QED BY <1>1, <1>2, <1>7, <1>8, <1>9, CollectorBegins, CollectorCounts, CollectorLags,
           CollectorResets, Zenon DEF LogNext

\* What the invariant says of the readers.
LEMMA LogInvSays == LogInv => ReadersComplete
<1> SUFFICES ASSUME LogInv PROVE ReadersComplete
  BY Zenon
<1>0. QueueInv /\ SinkTypes /\ CollectorOk /\ \A o \in Sinks : SinkOk(o)
  BY Zenon DEF LogInv
<1>1. ASSUME NEW r \in Reading, behind[r] <= cap PROVE Unread(r) = Passed(r) + 1 .. Len(ids)
  <2>1. r \in Readers /\ Queue(ring, Len(ids), cap) /\ Cursor(ring, behind[r], cap)
    BY <1>0, Zenon DEF Reading, QueueInv
  <2>2. {ring[i].n : i \in {j \in DOMAIN ring : j > Len(ring) - behind[r] /\ ~ring[j].own}}
          = PassedAt(ring, behind[r], Len(ids), cap) + 1 .. Len(ids)
    BY <1>1, <2>1, RestIsThere, Zenon
  <2> QED BY <2>2, PassedIs, Zenon DEF Unread
<1>2. ASSUME NEW r \in Sinks
      PROVE  /\ \A i, j \in DOMAIN written[r] : i < j => written[r][i] < written[r][j]
             /\ ~skipped[r] /\ r \in Reading /\ behind[r] <= cap =>
                  written[r] \o buffer[r] = [i \in 1 .. Passed(r) - since[r] |-> since[r] + i]
             /\ ~skipped[r] /\ where[r] = "stopped" =>
                  written[r] = [i \in 1 .. upto[r] - since[r] |-> since[r] + i]
  <2> DEFINE in == behind[r] <= cap
             wr == written[r]
             W == wr \o buffer[r]
  <2>1. Good(where[r], wr, buffer[r], since[r], upto[r], skipped[r], in, Passed(r))
    BY <1>0, Zenon DEF SinkOk
  <2>2. r \in Readers
    BY ReadersApart, Zenon
  <2>3. ~skipped[r] /\ r \in Reading /\ in => W = Run(since[r], Passed(r))
    BY <2>1, <2>2, ReadingIs, Zenon DEF Good
  <2>4. ~skipped[r] /\ where[r] = "stopped" => wr = Run(since[r], upto[r])
    BY <2>1, Zenon DEF Good
  <2>5. Rising(W) /\ wr \in Seq(Nat) /\ buffer[r] \in Seq(Nat)
    BY <2>1, Zenon DEF Good
  <2>6. /\ W \in Seq(Nat) /\ Len(W) = Len(wr) + Len(buffer[r])
        /\ \A i \in 1 .. Len(wr) : W[i] = wr[i]
    BY <2>5, Joined, Zenon
  <2>7. DOMAIN wr = 1 .. Len(wr) /\ DOMAIN W = 1 .. Len(W) /\ Len(wr) \in Nat /\ Len(buffer[r]) \in Nat
    <3> HIDE DEF wr, W
    <3> QED BY <2>5, <2>6
  <2>8. \A i \in DOMAIN wr : i \in DOMAIN W /\ W[i] = wr[i]
    <3> HIDE DEF wr, W
    <3>1. \A i \in 1 .. Len(wr) : i \in 1 .. Len(W)
      BY <2>6, <2>7
    <3> QED BY <2>6, <2>7, <3>1, Zenon
  <2>9. \A i, j \in DOMAIN wr : i < j => wr[i] < wr[j]
    <3> HIDE DEF wr, W
    <3> QED BY <2>5, <2>8, Zenon DEF Rising
  <2> QED BY <2>3, <2>4, <2>9, Zenon DEF Run
<1>3. ASSUME where[Collector] = "collect", ~skipped[Collector], behind[Collector] <= cap
      PROVE  \A p \in {IdsIn(scope) : scope \in Scopes} :
               CountOf(p) = Cardinality({e \in cleared + 1 .. Passed(Collector) : IsEdge(e) /\ ids[e] = p})
  <2>1. Tally(edges, ids, cleared, Passed(Collector))
    BY <1>0, <1>3, Zenon DEF CollectorOk
  <2> QED BY <2>1, Zenon DEF Tally, CountIn, CountOf, SeenIn, IsEdge, Edge
<1> QED BY <1>1, <1>2, <1>3, Zenon DEF ReadersComplete

\* However many sinks and events there are, and whatever the capacity: a reader of the log
\* queue that was never moved past an event misses nothing and reads nothing twice, what it
\* has yet to read is retained, a sink that stopped has written all that was published, and
\* the collector's counts are those of the events it read.
THEOREM LogReadersAreComplete == LogSpec => []ReadersComplete
<1>1. LogSpec => []LogInv
  BY LogInvInit, LogInvStep, PTL DEF LogSpec
<1>2. LogInv => ReadersComplete
  BY LogInvSays, Zenon
<1> QED BY <1>1, <1>2, PTL
=============================================================================
