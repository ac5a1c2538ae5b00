---------------------------- MODULE DaemonProofs ----------------------------
(***************************************************************************)
(* Machine-checked proofs about Daemon, for every set of services, every     *)
(* assignment of priorities and every bound.                                 *)
(*                                                                          *)
(* IndInv is inductive; each of its conjuncts has a lemma below with one    *)
(* step per group of actions that disturb the same state.  The safety       *)
(* properties follow from it, and so does the refinement of                 *)
(* ServiceLifecycle.                                                        *)
(***************************************************************************)
EXTENDS Daemon, TLAPS

\* The initial state is well typed.
LEMMA TypeInit == Init => TypeOK
<1> SUFFICES ASSUME Init PROVE TypeOK
  BY Zenon
<1> USE DEF Init, SvcInit
<1>1. status \in [Services -> Status] /\ fsm \in [Services -> FsmState]
  BY Zenon DEF Status, StartupStatus, FsmState
<1>2. /\ resolved \in [Services -> Nat \cup {Unresolved}]
      /\ outcome \in [Services -> Outcomes \cup {"none"}]
  BY Zenon DEF Outcomes
<1>3. live \in [Services -> SUBSET Nat]
  BY Zenon
<1> QED
  BY <1>1, <1>2, <1>3, Zenon DEF TypeOK, SvcTypeOK, Phases

\* Entering a stop wave keeps the coordinator's variables in their types.
LEMMA StopWaveType ==
  ASSUME TypeOK, NEW S \in SUBSET Services, EnterStopWave(S)
  PROVE  wave' \in Nat /\ dtoken' \in BOOLEAN /\ phase' \in Phases
<1>1. ASSUME NEW s \in S, wave' = Prio[s] PROVE wave' \in Nat
  BY <1>1, DaemonAssumption, Zenon
<1>2. wave' \in Nat
  BY <1>1, Zenon DEF EnterStopWave, TypeOK
<1>3. dtoken' \in BOOLEAN
  BY Zenon DEF EnterStopWave, TypeOK, SvcTypeOK
<1>4. phase' \in Phases
  BY Zenon DEF EnterStopWave, Phases
<1> QED
  BY <1>2, <1>3, <1>4, Zenon

\* Every handler keeps the types.
LEMMA TypeStep == TypeOK /\ [Next]_vars => TypeOK'
<1> SUFFICES ASSUME TypeOK, [Next]_vars PROVE TypeOK'
  BY Zenon
<1> USE SupervisorAssumption, DaemonAssumption
    DEF TypeOK, SvcTypeOK, Status, StartupStatus, FsmState, Outcomes, Unresolved, Phases,
        superVars, genVars, bodyVars, svcVars
<1>1. ASSUME NEW s \in Services, OnStarting(s), UNCHANGED <<phase, wave, todo>> PROVE TypeOK'
  BY <1>1 DEF OnStarting, StartStatus
<1>2. ASSUME NEW s \in Services, OnStartingCancelled(s) \/ BackoffCancelled(s) \/
             OnOutcome(s), UNCHANGED <<phase, wave, todo>>
      PROVE TypeOK'
  BY <1>2, ZenonT(60) DEF OnStartingCancelled, BackoffCancelled, OnOutcome, Terminate
<1>3. ASSUME NEW s \in Services, WatchFires(s) \/ ReloadFires(s) \/ GenerationDone(s) \/
             BackoffReload(s) \/ BackoffElapsed(s), UNCHANGED <<phase, wave, todo>>
      PROVE TypeOK'
  BY <1>3, ZenonT(60) DEF WatchFires, ReloadFires, GenerationDone, BackoffReload, BackoffElapsed
<1>4. ASSUME NEW s \in Services, BodyResolve(s) \/ BeginDone(s) \/ BeginImplicit(s) \/
             TriggerReload(s), UNCHANGED <<phase, wave, todo>>
      PROVE TypeOK'
  <2>1. CASE BodyResolve(s)
    BY <1>4, <2>1, Zenon DEF BodyResolve
  <2>2. CASE BeginDone(s) \/ BeginImplicit(s)
    BY <1>4, <2>2, ZenonT(60) DEF BeginDone, BeginImplicit
  <2>3. CASE TriggerReload(s)
    BY <1>4, <2>3, Zenon DEF TriggerReload
  <2> QED
    BY <1>4, <2>1, <2>2, <2>3, Zenon
<1>5. ASSUME NEW s \in Services, CommitHandshake(s), UNCHANGED <<phase, wave, todo>> PROVE TypeOK'
  BY <1>5, Zenon DEF CommitHandshake
<1>6. ASSUME NEW s \in Services, NEW r \in BodyOutcomes, BodyFinish(s, r), UNCHANGED <<phase, wave, todo>>
      PROVE TypeOK'
  BY <1>6, Zenon DEF BodyFinish
<1>7. ASSUME NEW s \in Services, OrphanExit(s), UNCHANGED <<phase, wave, todo>> PROVE TypeOK'
  BY <1>7, Zenon DEF OrphanExit
<1>8. ASSUME Publish, UNCHANGED <<phase, wave, todo>> PROVE TypeOK'
  BY <1>8 DEF Publish
<1>9. ASSUME BeginStartup \/ AdvanceWave \/ WaveTimeout PROVE TypeOK'
  BY <1>9 DEF BeginStartup, AdvanceWave, WaveTimeout, EnterWave, Wave
<1>10. ASSUME NEW s \in Services, Spawn(s) \/ SpawnWithoutLane(s) PROVE TypeOK'
  BY <1>10, ZenonT(60) DEF Spawn, SpawnWithoutLane
<1>11. ASSUME StopOnToken \/ StopOnSignal PROVE TypeOK'
  <2>1. EnterStopWave(Services)
    BY <1>11, Zenon DEF StopOnToken, StopOnSignal, BeginStop
  <2>2. wave' \in Nat /\ dtoken' \in BOOLEAN /\ phase' \in Phases
    BY <2>1, StopWaveType, Zenon
  <2> QED
    BY <1>11, <2>2 DEF StopOnToken, StopOnSignal, BeginStop
<1>12. ASSUME SignalWave PROVE TypeOK'
  BY <1>12, Zenon DEF SignalWave, Wave
<1>13. ASSUME NextStopWave PROVE TypeOK'
  <2>1. wave' \in Nat /\ dtoken' \in BOOLEAN /\ phase' \in Phases
    BY <1>13, StopWaveType, Zenon DEF NextStopWave
  <2> QED
    BY <1>13, <2>1, Zenon DEF NextStopWave
<1>14. ASSUME NEW s \in Services, JoinService(s) \/ AbortService(s) PROVE TypeOK'
  BY <1>14, SMTT(60) DEF JoinService, AbortService
<1>15. ASSUME Teardown \/ StartupFails \/ RequestShutdown PROVE TypeOK'
  BY <1>15, ZenonT(60) DEF Teardown, StartupFails, RequestShutdown
<1>16. ASSUME UNCHANGED vars PROVE TypeOK'
  BY <1>16, Zenon DEF vars
<1> QED
  BY <1>1, <1>2, <1>3, <1>4, <1>5, <1>6, <1>7, <1>8, <1>9, <1>10, <1>11, <1>12, <1>13, <1>14,
      <1>15, <1>16, Zenon
  DEF Next, SvcNext, React, BodyStep, Coordinate

\* A supervisor starts a body only when none is live, and every body that ends
\* or makes a handshake call is the live one.
LEMMA BodyInvStep == IndInv /\ [Next]_vars => BodyInv'
<1> SUFFICES ASSUME IndInv, [Next]_vars PROVE BodyInv'
  BY Zenon
<1> USE SupervisorAssumption, DaemonAssumption
    DEF IndInv, TypeOK, SvcTypeOK, FsmState, BodyInv, StartInv, Spawned, superVars, genVars,
        bodyVars, svcVars
<1>1. ASSUME NEW s \in Services, OnStarting(s), UNCHANGED <<phase, wave, todo>> PROVE BodyInv'
  BY <1>1 DEF OnStarting, StartStatus
<1>2. ASSUME NEW s \in Services, OnStartingCancelled(s) \/ BackoffCancelled(s) \/
             OnOutcome(s), UNCHANGED <<phase, wave, todo>>
      PROVE BodyInv'
  BY <1>2 DEF OnStartingCancelled, BackoffCancelled, OnOutcome, Terminate
<1>3. ASSUME NEW s \in Services, WatchFires(s) \/ ReloadFires(s) \/ GenerationDone(s) \/
             BackoffReload(s) \/ BackoffElapsed(s), UNCHANGED <<phase, wave, todo>>
      PROVE BodyInv'
  BY <1>3 DEF WatchFires, ReloadFires, GenerationDone, BackoffReload, BackoffElapsed
<1>4. ASSUME NEW s \in Services, BodyResolve(s) \/ BeginDone(s) \/ BeginImplicit(s) \/
             TriggerReload(s), UNCHANGED <<phase, wave, todo>>
      PROVE BodyInv'
  BY <1>4 DEF BodyResolve, BeginDone, BeginImplicit, TriggerReload
<1>5. ASSUME NEW s \in Services, CommitHandshake(s), UNCHANGED <<phase, wave, todo>> PROVE BodyInv'
  BY <1>5, Zenon DEF CommitHandshake
<1>6. ASSUME NEW s \in Services, NEW r \in BodyOutcomes, BodyFinish(s, r), UNCHANGED <<phase, wave, todo>>
      PROVE BodyInv'
  BY <1>6 DEF BodyFinish
<1>7. ASSUME NEW s \in Services, OrphanExit(s), UNCHANGED <<phase, wave, todo>> PROVE BodyInv'
  BY <1>7, Zenon DEF OrphanExit
<1>8. ASSUME Publish, UNCHANGED <<phase, wave, todo>> PROVE BodyInv'
  BY <1>8, Zenon DEF Publish
<1>9. ASSUME BeginStartup \/ AdvanceWave \/ WaveTimeout PROVE BodyInv'
  BY <1>9, Zenon DEF BeginStartup, AdvanceWave, WaveTimeout, EnterWave, Wave
<1>10. ASSUME NEW s \in Services, Spawn(s) \/ SpawnWithoutLane(s) PROVE BodyInv'
  BY <1>10 DEF Spawn, SpawnWithoutLane
<1>11. ASSUME StopOnToken \/ StopOnSignal PROVE BodyInv'
  BY <1>11 DEF StopOnToken, StopOnSignal, BeginStop, EnterStopWave
<1>12. ASSUME SignalWave PROVE BodyInv'
  BY <1>12, Zenon DEF SignalWave, Wave
<1>13. ASSUME NextStopWave PROVE BodyInv'
  BY <1>13, Zenon DEF NextStopWave, EnterStopWave
<1>14. ASSUME NEW s \in Services, JoinService(s) \/ AbortService(s) PROVE BodyInv'
  BY <1>14 DEF JoinService, AbortService
<1>15. ASSUME Teardown \/ StartupFails \/ RequestShutdown PROVE BodyInv'
  BY <1>15, Zenon DEF Teardown, StartupFails, RequestShutdown
<1>16. ASSUME UNCHANGED vars PROVE BodyInv'
  BY <1>16, Zenon DEF vars
<1> QED
  BY <1>1, <1>2, <1>3, <1>4, <1>5, <1>6, <1>7, <1>8, <1>9, <1>10, <1>11, <1>12, <1>13, <1>14,
      <1>15, <1>16, Zenon
  DEF Next, SvcNext, React, BodyStep, Coordinate

\* on_starting captures the baseline before the body it starts can resolve.
LEMMA WatchInvStep == IndInv /\ [Next]_vars => WatchInv'
<1> SUFFICES ASSUME IndInv, [Next]_vars PROVE WatchInv'
  BY Zenon
<1> USE SupervisorAssumption, DaemonAssumption
    DEF IndInv, TypeOK, SvcTypeOK, Unresolved, WatchInv, superVars, genVars, bodyVars, svcVars
<1>1. ASSUME NEW s \in Services, OnStarting(s), UNCHANGED <<phase, wave, todo>> PROVE WatchInv'
  BY <1>1 DEF OnStarting, StartStatus
<1>2. ASSUME NEW s \in Services, OnStartingCancelled(s) \/ BackoffCancelled(s) \/
             OnOutcome(s), UNCHANGED <<phase, wave, todo>>
      PROVE WatchInv'
  BY <1>2 DEF OnStartingCancelled, BackoffCancelled, OnOutcome, Terminate
<1>3. ASSUME NEW s \in Services, WatchFires(s) \/ ReloadFires(s) \/ GenerationDone(s) \/
             BackoffReload(s) \/ BackoffElapsed(s), UNCHANGED <<phase, wave, todo>>
      PROVE WatchInv'
  BY <1>3 DEF WatchFires, ReloadFires, GenerationDone, BackoffReload, BackoffElapsed
<1>4. ASSUME NEW s \in Services, BodyResolve(s) \/ BeginDone(s) \/ BeginImplicit(s) \/
             TriggerReload(s), UNCHANGED <<phase, wave, todo>>
      PROVE WatchInv'
  BY <1>4 DEF BodyResolve, BeginDone, BeginImplicit, TriggerReload
<1>5. ASSUME NEW s \in Services, CommitHandshake(s), UNCHANGED <<phase, wave, todo>> PROVE WatchInv'
  BY <1>5, Zenon DEF CommitHandshake
<1>6. ASSUME NEW s \in Services, NEW r \in BodyOutcomes, BodyFinish(s, r), UNCHANGED <<phase, wave, todo>>
      PROVE WatchInv'
  BY <1>6, Zenon DEF BodyFinish
<1>7. ASSUME NEW s \in Services, OrphanExit(s), UNCHANGED <<phase, wave, todo>> PROVE WatchInv'
  BY <1>7, Zenon DEF OrphanExit
<1>8. ASSUME Publish, UNCHANGED <<phase, wave, todo>> PROVE WatchInv'
  BY <1>8 DEF Publish
<1>9. ASSUME BeginStartup \/ AdvanceWave \/ WaveTimeout PROVE WatchInv'
  BY <1>9, Zenon DEF BeginStartup, AdvanceWave, WaveTimeout, EnterWave, Wave
<1>10. ASSUME NEW s \in Services, Spawn(s) \/ SpawnWithoutLane(s) PROVE WatchInv'
  BY <1>10 DEF Spawn, SpawnWithoutLane
<1>11. ASSUME StopOnToken \/ StopOnSignal PROVE WatchInv'
  BY <1>11, Zenon DEF StopOnToken, StopOnSignal, BeginStop, EnterStopWave
<1>12. ASSUME SignalWave PROVE WatchInv'
  BY <1>12, Zenon DEF SignalWave, Wave
<1>13. ASSUME NextStopWave PROVE WatchInv'
  BY <1>13, Zenon DEF NextStopWave, EnterStopWave
<1>14. ASSUME NEW s \in Services, JoinService(s) \/ AbortService(s) PROVE WatchInv'
  BY <1>14 DEF JoinService, AbortService
<1>15. ASSUME Teardown \/ StartupFails \/ RequestShutdown PROVE WatchInv'
  BY <1>15, Zenon DEF Teardown, StartupFails, RequestShutdown
<1>16. ASSUME UNCHANGED vars PROVE WatchInv'
  BY <1>16, Zenon DEF vars
<1> QED
  BY <1>1, <1>2, <1>3, <1>4, <1>5, <1>6, <1>7, <1>8, <1>9, <1>10, <1>11, <1>12, <1>13, <1>14,
      <1>15, <1>16, Zenon
  DEF Next, SvcNext, React, BodyStep, Coordinate

\* Only stop_all_services publishes ShuttingDown, after cancelling the token.
LEMMA CancelInvStep == IndInv /\ [Next]_vars => CancelInv'
<1> SUFFICES ASSUME IndInv, [Next]_vars PROVE CancelInv'
  BY Zenon
<1> USE SupervisorAssumption, DaemonAssumption
    DEF IndInv, TypeOK, SvcTypeOK, Status, StartupStatus, CancelInv, superVars, genVars,
        bodyVars, svcVars
<1>1. ASSUME NEW s \in Services, OnStarting(s), UNCHANGED <<phase, wave, todo>> PROVE CancelInv'
  BY <1>1, Zenon DEF OnStarting, StartStatus
<1>2. ASSUME NEW s \in Services, OnStartingCancelled(s) \/ BackoffCancelled(s) \/
             OnOutcome(s), UNCHANGED <<phase, wave, todo>>
      PROVE CancelInv'
  BY <1>2 DEF OnStartingCancelled, BackoffCancelled, OnOutcome, Terminate
<1>3. ASSUME NEW s \in Services, WatchFires(s) \/ ReloadFires(s) \/ GenerationDone(s) \/
             BackoffReload(s) \/ BackoffElapsed(s), UNCHANGED <<phase, wave, todo>>
      PROVE CancelInv'
  BY <1>3 DEF WatchFires, ReloadFires, GenerationDone, BackoffReload, BackoffElapsed
<1>4. ASSUME NEW s \in Services, BodyResolve(s) \/ BeginDone(s) \/ BeginImplicit(s) \/
             TriggerReload(s), UNCHANGED <<phase, wave, todo>>
      PROVE CancelInv'
  BY <1>4 DEF BodyResolve, BeginDone, BeginImplicit, TriggerReload
<1>5. ASSUME NEW s \in Services, CommitHandshake(s), UNCHANGED <<phase, wave, todo>>
      PROVE CancelInv'
  BY <1>5, Zenon DEF CommitHandshake
<1>6. ASSUME NEW s \in Services, NEW r \in BodyOutcomes, BodyFinish(s, r), UNCHANGED <<phase, wave, todo>>
      PROVE CancelInv'
  BY <1>6, Zenon DEF BodyFinish
<1>7. ASSUME NEW s \in Services, OrphanExit(s), UNCHANGED <<phase, wave, todo>> PROVE CancelInv'
  BY <1>7, Zenon DEF OrphanExit
<1>8. ASSUME Publish, UNCHANGED <<phase, wave, todo>> PROVE CancelInv'
  BY <1>8, Zenon DEF Publish
<1>9. ASSUME BeginStartup \/ AdvanceWave \/ WaveTimeout PROVE CancelInv'
  BY <1>9, Zenon DEF BeginStartup, AdvanceWave, WaveTimeout, EnterWave, Wave
<1>10. ASSUME NEW s \in Services, Spawn(s) \/ SpawnWithoutLane(s) PROVE CancelInv'
  BY <1>10 DEF Spawn, SpawnWithoutLane
<1>11. ASSUME StopOnToken \/ StopOnSignal PROVE CancelInv'
  BY <1>11, Zenon DEF StopOnToken, StopOnSignal, BeginStop, EnterStopWave
<1>12. ASSUME SignalWave PROVE CancelInv'
  BY <1>12, Zenon DEF SignalWave, Wave
<1>13. ASSUME NextStopWave PROVE CancelInv'
  BY <1>13, Zenon DEF NextStopWave, EnterStopWave
<1>14. ASSUME NEW s \in Services, JoinService(s) \/ AbortService(s) PROVE CancelInv'
  BY <1>14 DEF JoinService, AbortService
<1>15. ASSUME Teardown \/ StartupFails \/ RequestShutdown PROVE CancelInv'
  BY <1>15, Zenon DEF Teardown, StartupFails, RequestShutdown
<1>16. ASSUME UNCHANGED vars PROVE CancelInv'
  BY <1>16, Zenon DEF vars
<1> QED
  BY <1>1, <1>2, <1>3, <1>4, <1>5, <1>6, <1>7, <1>8, <1>9, <1>10, <1>11, <1>12, <1>13, <1>14,
      <1>15, <1>16, Zenon
  DEF Next, SvcNext, React, BodyStep, Coordinate

\* The plane leaves Healthy before the supervisor leaves the generation.
LEMMA HealthyStep == IndInv /\ [Next]_vars => HealthyHasGeneration'
<1> SUFFICES ASSUME IndInv, [Next]_vars PROVE HealthyHasGeneration'
  BY Zenon
<1> USE SupervisorAssumption, DaemonAssumption
    DEF IndInv, TypeOK, SvcTypeOK, Status, StartupStatus, FsmState, BodyInv, StartInv,
        Spawned, HealthyHasGeneration, superVars, genVars, bodyVars, svcVars
<1>1. ASSUME NEW s \in Services, OnStarting(s), UNCHANGED <<phase, wave, todo>>
      PROVE HealthyHasGeneration'
  BY <1>1 DEF OnStarting, StartStatus
<1>2. ASSUME NEW s \in Services, OnStartingCancelled(s) \/ BackoffCancelled(s) \/
             OnOutcome(s), UNCHANGED <<phase, wave, todo>>
      PROVE HealthyHasGeneration'
  BY <1>2 DEF OnStartingCancelled, BackoffCancelled, OnOutcome, Terminate
<1>3. ASSUME NEW s \in Services, WatchFires(s) \/ ReloadFires(s) \/ GenerationDone(s) \/
             BackoffReload(s) \/ BackoffElapsed(s), UNCHANGED <<phase, wave, todo>>
      PROVE HealthyHasGeneration'
  BY <1>3 DEF WatchFires, ReloadFires, GenerationDone, BackoffReload, BackoffElapsed
<1>4. ASSUME NEW s \in Services, BodyResolve(s) \/ BeginDone(s) \/ BeginImplicit(s) \/
             TriggerReload(s), UNCHANGED <<phase, wave, todo>>
      PROVE HealthyHasGeneration'
  BY <1>4, Zenon DEF BodyResolve, BeginDone, BeginImplicit, TriggerReload
<1>5. ASSUME NEW s \in Services, CommitHandshake(s), UNCHANGED <<phase, wave, todo>>
      PROVE HealthyHasGeneration'
  BY <1>5, Zenon DEF CommitHandshake
<1>6. ASSUME NEW s \in Services, NEW r \in BodyOutcomes, BodyFinish(s, r), UNCHANGED <<phase, wave, todo>>
      PROVE HealthyHasGeneration'
  BY <1>6, Zenon DEF BodyFinish
<1>7. ASSUME NEW s \in Services, OrphanExit(s), UNCHANGED <<phase, wave, todo>>
      PROVE HealthyHasGeneration'
  BY <1>7, Zenon DEF OrphanExit
<1>8. ASSUME Publish, UNCHANGED <<phase, wave, todo>> PROVE HealthyHasGeneration'
  BY <1>8, Zenon DEF Publish
<1>9. ASSUME BeginStartup \/ AdvanceWave \/ WaveTimeout PROVE HealthyHasGeneration'
  BY <1>9, Zenon DEF BeginStartup, AdvanceWave, WaveTimeout, EnterWave, Wave
<1>10. ASSUME NEW s \in Services, Spawn(s) \/ SpawnWithoutLane(s) PROVE HealthyHasGeneration'
  BY <1>10 DEF Spawn, SpawnWithoutLane
<1>11. ASSUME StopOnToken \/ StopOnSignal PROVE HealthyHasGeneration'
  BY <1>11, Zenon DEF StopOnToken, StopOnSignal, BeginStop, EnterStopWave
<1>12. ASSUME SignalWave PROVE HealthyHasGeneration'
  BY <1>12, Zenon DEF SignalWave, Wave
<1>13. ASSUME NextStopWave PROVE HealthyHasGeneration'
  BY <1>13, Zenon DEF NextStopWave, EnterStopWave
<1>14. ASSUME NEW s \in Services, JoinService(s) \/ AbortService(s) PROVE HealthyHasGeneration'
  BY <1>14 DEF JoinService, AbortService
<1>15. ASSUME Teardown \/ StartupFails \/ RequestShutdown PROVE HealthyHasGeneration'
  BY <1>15, Zenon DEF Teardown, StartupFails, RequestShutdown
<1>16. ASSUME UNCHANGED vars PROVE HealthyHasGeneration'
  BY <1>16, Zenon DEF vars
<1> QED
  BY <1>1, <1>2, <1>3, <1>4, <1>5, <1>6, <1>7, <1>8, <1>9, <1>10, <1>11, <1>12, <1>13, <1>14,
      <1>15, <1>16, Zenon
  DEF Next, SvcNext, React, BodyStep, Coordinate

\* spawn_all_services spawns the waves from the top, each service once.
LEMMA StartInvStep == IndInv /\ [Next]_vars => StartInv'
<1> SUFFICES ASSUME IndInv, [Next]_vars PROVE StartInv'
  BY Zenon
<1> USE SupervisorAssumption, DaemonAssumption
    DEF IndInv, TypeOK, SvcTypeOK, FsmState, Phases, StartInv, Spawned, Wave, superVars,
        genVars, bodyVars, svcVars
<1>1. ASSUME NEW s \in Services, OnStarting(s), UNCHANGED <<phase, wave, todo>> PROVE StartInv'
  BY <1>1, Zenon DEF OnStarting, StartStatus
<1>2. ASSUME NEW s \in Services, OnStartingCancelled(s) \/ BackoffCancelled(s) \/
             OnOutcome(s), UNCHANGED <<phase, wave, todo>>
      PROVE StartInv'
  BY <1>2 DEF OnStartingCancelled, BackoffCancelled, OnOutcome, Terminate
<1>3. ASSUME NEW s \in Services, WatchFires(s) \/ ReloadFires(s) \/ GenerationDone(s) \/
             BackoffReload(s) \/ BackoffElapsed(s), UNCHANGED <<phase, wave, todo>>
      PROVE StartInv'
  BY <1>3 DEF WatchFires, ReloadFires, GenerationDone, BackoffReload, BackoffElapsed
<1>4. ASSUME NEW s \in Services, BodyResolve(s) \/ BeginDone(s) \/ BeginImplicit(s) \/
             TriggerReload(s), UNCHANGED <<phase, wave, todo>>
      PROVE StartInv'
  BY <1>4, Zenon DEF BodyResolve, BeginDone, BeginImplicit, TriggerReload
<1>5. ASSUME NEW s \in Services, CommitHandshake(s), UNCHANGED <<phase, wave, todo>> PROVE StartInv'
  BY <1>5, Zenon DEF CommitHandshake
<1>6. ASSUME NEW s \in Services, NEW r \in BodyOutcomes, BodyFinish(s, r), UNCHANGED <<phase, wave, todo>>
      PROVE StartInv'
  BY <1>6, Zenon DEF BodyFinish
<1>7. ASSUME NEW s \in Services, OrphanExit(s), UNCHANGED <<phase, wave, todo>> PROVE StartInv'
  BY <1>7, Zenon DEF OrphanExit
<1>8. ASSUME Publish, UNCHANGED <<phase, wave, todo>> PROVE StartInv'
  BY <1>8, Zenon DEF Publish
<1>9. ASSUME BeginStartup \/ AdvanceWave \/ WaveTimeout PROVE StartInv'
  BY <1>9 DEF BeginStartup, AdvanceWave, WaveTimeout, EnterWave, Wave
<1>10. ASSUME NEW s \in Services, Spawn(s) \/ SpawnWithoutLane(s) PROVE StartInv'
  BY <1>10 DEF Spawn, SpawnWithoutLane
<1>11. ASSUME StopOnToken \/ StopOnSignal PROVE StartInv'
  BY <1>11, Zenon DEF StopOnToken, StopOnSignal, BeginStop, EnterStopWave
<1>12. ASSUME SignalWave PROVE StartInv'
  BY <1>12, Zenon DEF SignalWave, Wave
<1>13. ASSUME NextStopWave PROVE StartInv'
  BY <1>13, Zenon DEF NextStopWave, EnterStopWave
<1>14. ASSUME NEW s \in Services, JoinService(s) \/ AbortService(s) PROVE StartInv'
  BY <1>14, Zenon DEF JoinService, AbortService
<1>15. ASSUME Teardown \/ StartupFails \/ RequestShutdown PROVE StartInv'
  BY <1>15 DEF Teardown, StartupFails, RequestShutdown
<1>16. ASSUME UNCHANGED vars PROVE StartInv'
  BY <1>16, Zenon DEF vars
<1> QED
  BY <1>1, <1>2, <1>3, <1>4, <1>5, <1>6, <1>7, <1>8, <1>9, <1>10, <1>11, <1>12, <1>13, <1>14,
      <1>15, <1>16, Zenon
  DEF Next, SvcNext, React, BodyStep, Coordinate

\* No step spawns a service below one that is not spawned.
LEMMA StartOrderStep == IndInv /\ [Next]_vars => StartOrder'
<1> SUFFICES ASSUME IndInv, [Next]_vars PROVE StartOrder'
  BY Zenon
<1> USE SupervisorAssumption, DaemonAssumption
    DEF IndInv, TypeOK, SvcTypeOK, FsmState, Phases, StartInv, StopInv, StartOrder, Spawned,
        superVars, genVars, bodyVars, svcVars
<1>1. ASSUME NEW s \in Services, OnStarting(s), UNCHANGED <<phase, wave, todo>> PROVE StartOrder'
  BY <1>1 DEF OnStarting, StartStatus
<1>2. ASSUME NEW s \in Services, OnStartingCancelled(s) \/ BackoffCancelled(s) \/
             OnOutcome(s), UNCHANGED <<phase, wave, todo>>
      PROVE StartOrder'
  BY <1>2 DEF OnStartingCancelled, BackoffCancelled, OnOutcome, Terminate
<1>3. ASSUME NEW s \in Services, WatchFires(s) \/ ReloadFires(s) \/ GenerationDone(s) \/
             BackoffReload(s) \/ BackoffElapsed(s), UNCHANGED <<phase, wave, todo>>
      PROVE StartOrder'
  BY <1>3 DEF WatchFires, ReloadFires, GenerationDone, BackoffReload, BackoffElapsed
<1>4. ASSUME NEW s \in Services, BodyResolve(s) \/ BeginDone(s) \/ BeginImplicit(s) \/
             TriggerReload(s), UNCHANGED <<phase, wave, todo>>
      PROVE StartOrder'
  BY <1>4 DEF BodyResolve, BeginDone, BeginImplicit, TriggerReload
<1>5. ASSUME NEW s \in Services, CommitHandshake(s), UNCHANGED <<phase, wave, todo>>
      PROVE StartOrder'
  BY <1>5, Zenon DEF CommitHandshake
<1>6. ASSUME NEW s \in Services, NEW r \in BodyOutcomes, BodyFinish(s, r), UNCHANGED <<phase, wave, todo>>
      PROVE StartOrder'
  BY <1>6, Zenon DEF BodyFinish
<1>7. ASSUME NEW s \in Services, OrphanExit(s), UNCHANGED <<phase, wave, todo>> PROVE StartOrder'
  BY <1>7 DEF OrphanExit
<1>8. ASSUME Publish, UNCHANGED <<phase, wave, todo>> PROVE StartOrder'
  BY <1>8, Zenon DEF Publish
<1>9. ASSUME BeginStartup \/ AdvanceWave \/ WaveTimeout PROVE StartOrder'
  BY <1>9 DEF BeginStartup, AdvanceWave, WaveTimeout, EnterWave, Wave
<1>10. ASSUME NEW s \in Services, Spawn(s) \/ SpawnWithoutLane(s) PROVE StartOrder'
  BY <1>10 DEF Spawn, SpawnWithoutLane
<1>11. ASSUME StopOnToken \/ StopOnSignal PROVE StartOrder'
  BY <1>11 DEF StopOnToken, StopOnSignal, BeginStop, EnterStopWave
<1>12. ASSUME SignalWave PROVE StartOrder'
  BY <1>12 DEF SignalWave, Wave
<1>13. ASSUME NextStopWave PROVE StartOrder'
  BY <1>13, Zenon DEF NextStopWave, EnterStopWave
<1>14. ASSUME NEW s \in Services, JoinService(s) \/ AbortService(s) PROVE StartOrder'
  BY <1>14 DEF JoinService, AbortService
<1>15. ASSUME Teardown \/ StartupFails \/ RequestShutdown PROVE StartOrder'
  BY <1>15 DEF Teardown, StartupFails, RequestShutdown
<1>16. ASSUME UNCHANGED vars PROVE StartOrder'
  BY <1>16, Zenon DEF vars
<1> QED
  BY <1>1, <1>2, <1>3, <1>4, <1>5, <1>6, <1>7, <1>8, <1>9, <1>10, <1>11, <1>12, <1>13, <1>14,
      <1>15, <1>16, Zenon
  DEF Next, SvcNext, React, BodyStep, Coordinate

\* stop_all_services cancels a wave only when those below it have been joined.
LEMMA StopInvStep == IndInv /\ [Next]_vars => StopInv'
<1> SUFFICES ASSUME IndInv, [Next]_vars PROVE StopInv'
  BY Zenon
<1> USE SupervisorAssumption, DaemonAssumption
    DEF IndInv, TypeOK, SvcTypeOK, FsmState, Phases, BodyInv, StartInv, StopInv, Joined, Over,
        Stopping, Spawned, superVars, genVars, bodyVars, svcVars
<1>1. ASSUME NEW s \in Services, OnStarting(s), UNCHANGED <<phase, wave, todo>> PROVE StopInv'
  BY <1>1 DEF OnStarting, StartStatus
<1>2. ASSUME NEW s \in Services, OnStartingCancelled(s) \/ BackoffCancelled(s) \/
             OnOutcome(s), UNCHANGED <<phase, wave, todo>>
      PROVE StopInv'
  BY <1>2 DEF OnStartingCancelled, BackoffCancelled, OnOutcome, Terminate
<1>3. ASSUME NEW s \in Services, WatchFires(s) \/ ReloadFires(s) \/ GenerationDone(s) \/
             BackoffReload(s) \/ BackoffElapsed(s), UNCHANGED <<phase, wave, todo>>
      PROVE StopInv'
  BY <1>3 DEF WatchFires, ReloadFires, GenerationDone, BackoffReload, BackoffElapsed
<1>4. ASSUME NEW s \in Services, BodyResolve(s) \/ BeginDone(s) \/ BeginImplicit(s) \/
             TriggerReload(s), UNCHANGED <<phase, wave, todo>>
      PROVE StopInv'
  BY <1>4 DEF BodyResolve, BeginDone, BeginImplicit, TriggerReload
<1>5. ASSUME NEW s \in Services, CommitHandshake(s), UNCHANGED <<phase, wave, todo>> PROVE StopInv'
  BY <1>5, Zenon DEF CommitHandshake
<1>6. ASSUME NEW s \in Services, NEW r \in BodyOutcomes, BodyFinish(s, r), UNCHANGED <<phase, wave, todo>>
      PROVE StopInv'
  BY <1>6, Zenon DEF BodyFinish
<1>7. ASSUME NEW s \in Services, OrphanExit(s), UNCHANGED <<phase, wave, todo>> PROVE StopInv'
  BY <1>7, Zenon DEF OrphanExit
<1>8. ASSUME Publish, UNCHANGED <<phase, wave, todo>> PROVE StopInv'
  BY <1>8, Zenon DEF Publish
<1>9. ASSUME BeginStartup \/ AdvanceWave \/ WaveTimeout PROVE StopInv'
  BY <1>9 DEF BeginStartup, AdvanceWave, WaveTimeout, EnterWave, Wave
<1>10. ASSUME NEW s \in Services, Spawn(s) \/ SpawnWithoutLane(s) PROVE StopInv'
  BY <1>10 DEF Spawn, SpawnWithoutLane
<1>11. ASSUME StopOnToken \/ StopOnSignal PROVE StopInv'
  BY <1>11 DEF StopOnToken, StopOnSignal, BeginStop, EnterStopWave
<1>12. ASSUME SignalWave PROVE StopInv'
  BY <1>12 DEF SignalWave, Wave
<1>13. ASSUME NextStopWave PROVE StopInv'
  <2> DEFINE Above == {s \in Services : Prio[s] > wave}
  <2>1. /\ phase = "join" /\ todo = {}
        /\ UNCHANGED <<status, fsm, token, todo>>
    BY <1>13, Zenon DEF NextStopWave
  <2>2. \A s \in Services : Prio[s] <= wave => Over(s) /\ (fsm[s] = "Terminated" => status[s] = "Terminated")
    BY <2>1
  <2>3. CASE Above = {} /\ phase' = "teardown"
    BY <2>1, <2>2, <2>3
  <2>4. ASSUME NEW t \in Above, \A u \in Above : Prio[t] <= Prio[u], wave' = Prio[t], phase' = "signal"
        PROVE  StopInv'
    BY <2>1, <2>2, <2>4
  <2> QED
    BY <1>13, <2>3, <2>4, Zenon DEF NextStopWave, EnterStopWave
<1>14. ASSUME NEW s \in Services, JoinService(s) \/ AbortService(s) PROVE StopInv'
  BY <1>14 DEF JoinService, AbortService
<1>15. ASSUME Teardown \/ StartupFails \/ RequestShutdown PROVE StopInv'
  BY <1>15 DEF Teardown, StartupFails, RequestShutdown
<1>16. ASSUME UNCHANGED vars PROVE StopInv'
  BY <1>16, Zenon DEF vars
<1> QED
  BY <1>1, <1>2, <1>3, <1>4, <1>5, <1>6, <1>7, <1>8, <1>9, <1>10, <1>11, <1>12, <1>13, <1>14,
      <1>15, <1>16, Zenon
  DEF Next, SvcNext, React, BodyStep, Coordinate

\* The inductive invariant holds initially.
LEMMA IndInit == Init => IndInv
<1> SUFFICES ASSUME Init PROVE IndInv
  BY Zenon
<1>1. TypeOK
  BY TypeInit, Zenon
<1>2. BodyInv /\ WatchInv /\ CancelInv /\ HealthyHasGeneration
  BY DEF Init, SvcInit, BodyInv, WatchInv, CancelInv, HealthyHasGeneration
<1>3. StartInv /\ StartOrder /\ StopInv
  BY Zenon DEF Init, SvcInit, StartInv, StartOrder, StopInv, Spawned, Joined
<1> QED
  BY <1>1, <1>2, <1>3, Zenon DEF IndInv

\* Every reachable state of the daemon satisfies the inductive invariant.
THEOREM Invariance == Spec => []IndInv
<1>1. IndInv /\ [Next]_vars => IndInv'
  BY TypeStep, BodyInvStep, WatchInvStep, CancelInvStep, HealthyStep, StartInvStep,
      StartOrderStep, StopInvStep, Zenon
  DEF IndInv
<1> QED
  BY IndInit, <1>1, PTL DEF Spec

\* Every variable of the runner keeps its type.
THEOREM TypeCorrect == Spec => []TypeOK
<1>1. IndInv => TypeOK
  BY Zenon DEF IndInv
<1> QED
  BY Invariance, <1>1, PTL

\* on_starting never runs beside an unfinished body of the same service.
THEOREM OneBody == Spec => []AtMostOneBody
<1>1. IndInv => AtMostOneBody
  BY Zenon DEF IndInv, BodyInv, AtMostOneBody
<1> QED
  BY Invariance, <1>1, PTL

\* stop_all_services respects the priorities.
THEOREM StopsInOrder == Spec => []StopOrder
<1>1. ASSUME IndInv PROVE StopOrder
  <2> SUFFICES ASSUME NEW s \in Services, NEW t \in Services, token[t], Prio[s] < Prio[t]
               PROVE  Over(s)
    BY Zenon DEF StopOrder
  <2>1. Joined(s)
    BY <1>1, DaemonAssumption DEF IndInv, TypeOK, StopInv, Stopping, Joined
  <2> QED
    BY <1>1, <2>1, Zenon DEF IndInv, StopInv
<1> QED
  BY Invariance, <1>1, PTL

\* spawn_all_services respects the priorities.
THEOREM StartsInOrder == Spec => []StartOrder
<1>1. IndInv => StartOrder
  BY Zenon DEF IndInv
<1> QED
  BY Invariance, <1>1, PTL

\* The waves are respected in both directions.
THEOREM WavesInOrder == Spec => []WaveOrder
<1>1. StartOrder /\ StopOrder => WaveOrder
  BY Zenon DEF WaveOrder
<1> QED
  BY StartsInOrder, StopsInOrder, <1>1, PTL

\* A Healthy entry of the status plane always belongs to a generation.
THEOREM HealthyIsLive == Spec => []HealthyHasGeneration
<1>1. IndInv => HealthyHasGeneration
  BY Zenon DEF IndInv
<1> QED
  BY Invariance, <1>1, PTL

\* The dependency watch of a generation covers all its body resolved.
THEOREM UpdatesNotLost == Spec => []NoLostUpdate
<1>1. IndInv => NoLostUpdate
  BY Zenon DEF IndInv, WatchInv, NoLostUpdate
<1> QED
  BY Invariance, <1>1, PTL

\* What stop_all_services leaves on the plane for supervisors that ended.
THEOREM GracefulExit == Spec => []GracefulExitIsTerminated
<1>1. IndInv => GracefulExitIsTerminated
  BY Zenon DEF IndInv, StopInv, Joined, GracefulExitIsTerminated
<1> QED
  BY Invariance, <1>1, PTL

\* No handler overwrites ShuttingDown; only a handshake call that had read an
\* older status can.
THEOREM ShutdownStatus == Spec => ShutdownStatusStands
<1> DEFINE Stands(u) == status[u] = "ShuttingDown" =>
               \/ status'[u] \in {"ShuttingDown", "Terminated"}
               \/ status'[u] = "Healthy" /\ hs[u] = "Healthy"
<1>1. ASSUME IndInv, [Next]_vars, NEW u \in Services PROVE Stands(u)
  <2> USE <1>1 DEF IndInv, TypeOK, SvcTypeOK, CancelInv
  <2>1. ASSUME NEW s \in Services, OnStarting(s) \/ OnStartingCancelled(s) PROVE Stands(u)
    BY <2>1, Zenon DEF OnStarting, OnStartingCancelled, Terminate
  <2>2. ASSUME NEW s \in Services, OnOutcome(s) \/ BackoffCancelled(s) PROVE Stands(u)
    BY <2>2, Zenon DEF OnOutcome, BackoffCancelled, Terminate
  <2>3. ASSUME NEW s \in Services, CommitHandshake(s) PROVE Stands(u)
    BY <2>3, Zenon DEF CommitHandshake
  <2>4. ASSUME NEW s \in Services, SpawnWithoutLane(s) \/ JoinService(s) \/ AbortService(s) PROVE Stands(u)
    BY <2>4, Zenon DEF SpawnWithoutLane, JoinService, AbortService
  <2>5. CASE SignalWave
    BY <2>5, Zenon DEF SignalWave
  <2>6. CASE UNCHANGED status
    BY <2>6, Zenon
  <2>7. \/ \E s \in Services :
              \/ OnStarting(s) \/ OnStartingCancelled(s) \/ OnOutcome(s) \/ BackoffCancelled(s)
              \/ CommitHandshake(s)
              \/ SpawnWithoutLane(s) \/ JoinService(s) \/ AbortService(s)
        \/ SignalWave
        \/ UNCHANGED status
    BY Zenon DEF Next, SvcNext, React, BodyStep, Coordinate, vars, svcVars, superVars,
       WatchFires, ReloadFires, GenerationDone, BackoffReload, BackoffElapsed,
       BodyResolve, BeginDone, BeginImplicit, BodyFinish, OrphanExit, TriggerReload, Publish,
       BeginStartup, AdvanceWave, WaveTimeout, Spawn, StopOnToken, StopOnSignal, BeginStop,
       NextStopWave, Teardown, StartupFails, RequestShutdown
  <2> QED
    BY <2>1, <2>2, <2>3, <2>4, <2>5, <2>6, <2>7, Zenon
<1>2. ASSUME IndInv, [Next]_vars PROVE [\A s \in Services : Stands(s)]_vars
  BY <1>1, <1>2, Zenon
<1> QED
  BY <1>2, Invariance, PTL DEF Spec, ShutdownStatusStands

\* The bodies a daemon runs behave as ServiceLifecycle promises.
THEOREM Refinement == Spec => ImplementsLifecycle
<1> DEFINE Up == {s \in Services : live[s] # {}}
           Halted == {s \in Services : token[s]}
<1>1. Init => Lifecycle!LInit
  BY DEF Init, SvcInit, Lifecycle!LInit
<1>2. ASSUME IndInv, [Next]_vars PROVE [Lifecycle!LNext]_(Lifecycle!lvars)
  <2> USE <1>2 DEF IndInv, TypeOK, SvcTypeOK, superVars, genVars, bodyVars, svcVars
  <2>1. ASSUME NEW s \in Services, OnStarting(s) PROVE Lifecycle!StartGeneration(s)
    <3>1. s \notin Up /\ s \notin Halted /\ UNCHANGED token
      BY <2>1, Zenon DEF OnStarting, BodyInv
    <3>2. live' = [live EXCEPT ![s] = {gen[s] + 1}]
      BY <2>1, Zenon DEF OnStarting, BodyInv
    <3>3. Up' = Up \cup {s}
      BY <3>2, Zenon
    <3> QED
      BY <2>1, <3>1, <3>3 DEF OnStarting, Lifecycle!StartGeneration
  <2>2. ASSUME NEW s \in Services, live[s] # {}, live' = [live EXCEPT ![s] = {}], UNCHANGED <<gen, token>>
        PROVE  Lifecycle!EndGeneration(s)
    <3>1. s \in Up /\ Up' = Up \ {s} /\ Halted' = Halted
      BY <2>2, Zenon
    <3> QED
      BY <2>2, <3>1, Zenon DEF Lifecycle!EndGeneration
  <2>3. ASSUME NEW s \in Services, NEW r \in BodyOutcomes, BodyFinish(s, r)
        PROVE  Lifecycle!EndGeneration(s)
    <3>1. live[s] = {gen[s]} /\ live' = [live EXCEPT ![s] = {}] /\ UNCHANGED <<gen, token>>
      BY <2>3, Zenon DEF BodyFinish, BodyInv
    <3> QED
      BY <2>2, <3>1, Zenon
  <2>4. ASSUME NEW s \in Services, OrphanExit(s) PROVE Lifecycle!EndGeneration(s)
    BY <2>2, <2>4, Zenon DEF OrphanExit
  <2>5. ASSUME SignalWave PROVE Lifecycle!Halt(Wave(wave))
    <3>1. Halted' = Halted \cup Wave(wave)
      BY <2>5, Zenon DEF SignalWave, Wave
    <3> QED
      BY <2>5, <3>1, Zenon DEF SignalWave, Lifecycle!Halt
  <2>6. Wave(wave) \in SUBSET Services
    BY Zenon DEF Wave
  <2>7. ASSUME UNCHANGED <<gen, live, token>> PROVE UNCHANGED Lifecycle!lvars
    BY <2>7, Zenon DEF Lifecycle!lvars
  <2>8. \/ \E s \in Services : OnStarting(s) \/ OrphanExit(s) \/ \E r \in BodyOutcomes : BodyFinish(s, r)
        \/ SignalWave
        \/ UNCHANGED <<gen, live, token>>
    BY DEF Next, SvcNext, React, BodyStep, Coordinate, vars, Terminate,
       OnStartingCancelled, BackoffCancelled, OnOutcome, WatchFires, ReloadFires, GenerationDone,
       BackoffReload, BackoffElapsed, BodyResolve, BeginDone, BeginImplicit, TriggerReload,
       CommitHandshake, Publish, BeginStartup, AdvanceWave, WaveTimeout, Spawn, SpawnWithoutLane,
       StopOnToken, StopOnSignal, BeginStop, NextStopWave, JoinService, AbortService, Teardown,
       StartupFails, RequestShutdown
  <2>9. ASSUME NEW s \in Services, Lifecycle!StartGeneration(s) \/ Lifecycle!EndGeneration(s)
        PROVE  Lifecycle!LNext
    BY <2>9, Zenon DEF Lifecycle!LNext
  <2>10. ASSUME SignalWave PROVE Lifecycle!LNext
    BY <2>5, <2>6, <2>10, Zenon DEF Lifecycle!LNext, Lifecycle!Halt
  <2>11. ASSUME NEW s \in Services,
                OnStarting(s) \/ OrphanExit(s) \/ \E r \in BodyOutcomes : BodyFinish(s, r)
         PROVE  Lifecycle!LNext
    <3>1. Lifecycle!StartGeneration(s) \/ Lifecycle!EndGeneration(s)
      BY <2>1, <2>3, <2>4, <2>11, Zenon
    <3> QED
      BY <2>9, <3>1, Zenon
  <2>12. Lifecycle!LNext \/ UNCHANGED Lifecycle!lvars
    BY <2>7, <2>8, <2>10, <2>11, Zenon
  <2> QED
    BY <2>12, Zenon
<1> QED
  BY <1>1, <1>2, Invariance, PTL DEF Spec, ImplementsLifecycle, Lifecycle!LSpec
=============================================================================
