--------------------------- MODULE ProviderProofs ----------------------------
(***************************************************************************)
(* Proofs about how a provider's value comes to be and changes, and about   *)
(* the pacing of restarts: RestartBackoff, ProviderInit, ManagedState and   *)
(* ProviderGraph.                                                           *)
(***************************************************************************)
EXTENDS ProviderInit, ManagedState, ProviderGraph, FiniteSetTheorems, TLAPS

-----------------------------------------------------------------------------
(* The restart delay and the storm guard                                   *)

\* RestartPolicy::next_delay with any jitter: never above max_delay.
LEMMA NextDelayCapped ==
  ASSUME NEW d \in Int, jitter \in 0..100, NEW e \in NextDelay(d)
  PROVE  e \in Int /\ e <= MaxDelay
<1> DEFINE base == d * Multiplier
           range == (base * jitter) \div 100
<1>1. Multiplier \in Int /\ MaxDelay \in Int /\ jitter \in Int
  BY BackoffAssumption
<1>2. base \in Int
  BY <1>1
<1>3. range \in Int
  <2>1. base * jitter \in Int
    BY <1>1, <1>2
  <2> QED BY <2>1
<1>4. e \in {MaxDelay} \cup {BMin(n, MaxDelay) : n \in base - range .. base + range}
  BY Zenon DEF NextDelay
<1> HIDE DEF base, range
<1> QED BY <1>1, <1>2, <1>3, <1>4 DEF BMin

\* Products, for the solver.
LEMMA Products ==
  ASSUME NEW a \in Nat, NEW b \in Nat
  PROVE  a * b \in Nat
OBVIOUS

\* RestartPolicy::next_delay with a jitter below 100 percent: a wait that is not zero is
\* not followed by one that is.
LEMMA NextDelayPositive ==
  ASSUME NEW d \in Nat \ {0}, jitter \in 0..100, DelaysPositive, NEW e \in NextDelay(d)
  PROVE  e > 0
<1> DEFINE base == d * Multiplier
           range == (base * jitter) \div 100
<1>1. Multiplier \in Nat \ {0} /\ MaxDelay \in Nat \ {0} /\ jitter \in 0..99
  BY BackoffAssumption DEF DelaysPositive
<1>2. base \in Nat /\ base >= 1
  <2>1. base = d + d * (Multiplier - 1)
    BY <1>1
  <2>2. d * (Multiplier - 1) \in Nat
    BY <1>1, Products
  <2> QED BY <2>1, <2>2
<1> HIDE DEF base
<1>3. range \in Int /\ range < base
  <2>1. base * jitter \in Nat
    BY <1>1, <1>2, Products
  <2>2. base * jitter + base * (99 - jitter) = 99 * base
    BY <1>1, <1>2
  <2>3. base * (99 - jitter) \in Nat
    BY <1>1, <1>2, Products
  <2>4. base * jitter <= 99 * base
    BY <1>2, <2>1, <2>2, <2>3
  <2>5. PICK n \in Nat : n = base * jitter
    BY <2>1, Zenon
  <2>6. range = n \div 100 /\ n <= 99 * base
    BY <2>4, <2>5, Zenon
  <2> QED BY <1>2, <2>6
<1>4. e \in {MaxDelay} \cup {BMin(n, MaxDelay) : n \in base - range .. base + range}
  BY Zenon DEF NextDelay, base
<1> HIDE DEF range
<1> QED BY <1>1, <1>2, <1>3, <1>4 DEF BMin

\* The failures that RestartStormGuard::prune keeps are a part of the ones there were.
LEMMA PruneType ==
  ASSUME failures \in Seq(Nat), NEW t
  PROVE  Prune(t) \in Seq(Nat)
<1> DEFINE expired == {i \in 1..Len(failures) : t - failures[i] > Window}
<1>1. IsFiniteSet(1..Len(failures)) /\ IsFiniteSet(expired)
  BY FS_Interval, FS_Subset
<1>2. Cardinality(expired) \in Nat
  BY <1>1, FS_CardinalityType, Zenon
<1> HIDE DEF expired
<1>3. PICK n \in Nat : n = Cardinality(expired)
  BY <1>2, Zenon
<1>4. SubSeq(failures, n + 1, Len(failures)) \in Seq(Nat)
  OBVIOUS
<1> QED BY <1>3, <1>4, Zenon DEF Prune, expired

\* The delay is capped, and the wait of a service in a storm outlasts the suppression
\* delay, counted from its last failure.
BInv ==
  /\ jitter \in 0..100 /\ now \in Nat /\ since \in Nat
  /\ delay \in Int /\ wakeAt \in Int /\ failures \in Seq(Nat)
  /\ InitialDelay <= MaxDelay => delay <= MaxDelay
  /\ mode = "waiting" /\ Len(failures) >= Threshold =>
       failures[Len(failures)] + Suppression <= wakeAt

\* The invariant of BackoffController and RestartStormGuard holds in every reachable
\* state of the supervisor that drives them.
THEOREM BackoffInvariance == BSpec => []BInv
<1> USE BackoffAssumption
<1>1. BInit => BInv
  BY DEF BInit, BInv
<1>2. BInv /\ [BNext]_bvars => BInv'
  <2> SUFFICES ASSUME BInv, [BNext]_bvars PROVE BInv'
    BY Zenon
  <2>1. CASE CleanExit
    BY <2>1 DEF CleanExit, StartGeneration, ResetAll, BInv
  <2>2. CASE Fail
    <3> DEFINE kept == IF now - since >= ResetAfter THEN <<>> ELSE Prune(now)
               policy == IF now - since >= ResetAfter THEN InitialDelay ELSE delay
    <3>1. kept \in Seq(Nat)
      BY PruneType DEF BInv
    <3>2. policy \in Int /\ (InitialDelay <= MaxDelay => policy <= MaxDelay)
      BY DEF BInv
    <3>3. /\ delay' = policy /\ failures' = Append(kept, now) /\ UNCHANGED <<jitter, now, since>>
          /\ wakeAt' = now + BMax(policy, IF Len(Append(kept, now)) >= Threshold THEN Suppression ELSE 0)
      BY <2>2, Zenon DEF Fail
    <3> HIDE DEF kept, policy
    <3>4. /\ failures' \in Seq(Nat) /\ failures'[Len(failures')] = now
      BY <3>1, <3>3 DEF BInv
    <3>5. wakeAt' \in Int /\ (Len(failures') >= Threshold => now + Suppression <= wakeAt')
      BY <3>2, <3>3, SMTT(60) DEF BInv, BMax
    <3> QED BY <3>2, <3>3, <3>4, <3>5, Zenon DEF BInv
  <2>3. CASE Elapse
    BY <2>3, NextDelayCapped, Zenon DEF Elapse, StartGeneration, BInv
  <2>4. CASE Interrupt
    BY <2>4 DEF Interrupt, StartGeneration, ResetAll, BInv
  <2>5. CASE Stop \/ ReloadRunning \/ Reload \/ Cancel
    BY <2>5, Zenon DEF Stop, ReloadRunning, Reload, Cancel, BInv
  <2>6. CASE Tick
    BY <2>6, SMTT(60) DEF Tick, BInv
  <2>7. CASE UNCHANGED bvars
    BY <2>7, Zenon DEF bvars, BInv
  <2> QED BY <2>1, <2>2, <2>3, <2>4, <2>5, <2>6, <2>7, Zenon DEF BNext
<1> QED BY <1>1, <1>2, PTL DEF BSpec

\* Once RestartStormGuard has seen a storm, wait_for_restart goes on to the next
\* generation before the suppression delay has passed only by a reload signal, which
\* also clears the history.
THEOREM StormIsHeld == BSpec => StormHolds
<1> DEFINE Hold == mode = "waiting" /\ Len(failures) >= Threshold /\ mode' = "running" /\ failures' # <<>>
                     => now - failures[Len(failures)] >= Suppression
<1>1. BInv /\ [BNext]_bvars => [Hold]_bvars
  <2> SUFFICES ASSUME BInv, BNext, mode = "waiting", Len(failures) >= Threshold,
                      mode' = "running", failures' # <<>>
               PROVE  now - failures[Len(failures)] >= Suppression
    BY Zenon
  <2>1. Elapse
    BY Zenon DEF BNext, CleanExit, Fail, Interrupt, ResetAll, Stop, ReloadRunning, Reload, Cancel, Tick
  <2>2. Len(failures) \in 1..Len(failures)
    BY BackoffAssumption DEF BInv
  <2>3. failures[Len(failures)] \in Nat
    BY <2>2 DEF BInv
  <2> QED BY <2>1, <2>3, BackoffAssumption, SMTT(60) DEF Elapse, BInv
<1> QED BY <1>1, BackoffInvariance, PTL DEF BSpec, StormHolds

-----------------------------------------------------------------------------
(* The attempts of one init function                                       *)

\* A wait ends at the deadline at the latest, and a loop that has begun an attempt after
\* its token was cancelled does not come to the end of another wait.
IInv ==
  /\ jitter \in 0..100 /\ now \in Nat /\ since \in Nat /\ delay \in Int /\ wakeAt \in Int
  /\ tried \in Nat /\ late \in Nat /\ lazy \in BOOLEAN
  /\ stage \in {"attempt", "blocked", "backoff", "done"}
  /\ tried < Deadline
  /\ stage \in {"attempt", "backoff"} => now <= Deadline
  /\ stage = "backoff" => wakeAt <= Deadline
  /\ DelaysPositive =>
       /\ delay > 0 /\ late <= 1
       /\ late = 1 => cancelled
       /\ stage = "backoff" /\ late = 1 => now < wakeAt

\* Every step of init_fallible_with_source preserves the invariant.
LEMMA AttemptsStep == IInv /\ [INext]_<<bvars, ivars>> => IInv'
<1> SUFFICES ASSUME IInv, [INext]_<<bvars, ivars>> PROVE IInv'
  BY Zenon
<1> USE BackoffAssumption, ProviderInitAssumption
<1>1. CASE AttemptDecides
  BY <1>1, Zenon DEF AttemptDecides, Finish, shared, IInv, Deadline, InitTimeout, DelaysPositive
<1>2. CASE AttemptRetryable
  <2>1. /\ UNCHANGED <<jitter, now, since, delay, cancelled, lazy, tried, late>>
        /\ \/ now >= Deadline /\ stage' = "done" /\ UNCHANGED wakeAt
           \/ now < Deadline /\ stage' = "backoff" /\ wakeAt' = now + SleepFor
    BY <1>2 DEF AttemptRetryable, TimeoutFailure, Finish, shared, IInv, Deadline, InitTimeout
  <2>2. SleepFor \in Int /\ SleepFor <= Deadline - now
    BY DEF SleepFor, BMin, IInv, Deadline, InitTimeout
  <2>3. delay > 0 /\ now < Deadline => SleepFor > 0
    BY DEF SleepFor, BMin, IInv, Deadline, InitTimeout
  <2>4. Deadline' = Deadline /\ Deadline \in Int /\ (DelaysPositive' <=> DelaysPositive)
    BY <2>1 DEF Deadline, InitTimeout, DelaysPositive, IInv
  <2> QED BY <2>1, <2>2, <2>3, <2>4 DEF IInv
<1>3. CASE AttemptTimesOut
  BY <1>3, Zenon DEF AttemptTimesOut, TimeoutFailure, Finish, shared, IInv, Deadline, InitTimeout, DelaysPositive
<1>4. CASE InitCancelled
  BY <1>4, Zenon DEF InitCancelled, Finish, shared, IInv, Deadline, InitTimeout, DelaysPositive
<1>5. CASE BackoffEnds
  <2>1. delay' \in NextDelay(delay) /\ UNCHANGED <<jitter, now, since, wakeAt, cancelled, lazy>>
    BY <1>5, Zenon DEF BackoffEnds, shared
  <2>2. /\ stage = "backoff" /\ now >= wakeAt
        /\ \/ stage' = "done" /\ UNCHANGED <<tried, late>>
           \/ /\ now < Deadline /\ stage' \in {"attempt", "blocked"} /\ tried' = now
              /\ late' = IF cancelled THEN late + 1 ELSE late
    BY <1>5 DEF BackoffEnds, TimeoutFailure, Finish, IInv, Deadline, InitTimeout
  <2>3. delay' \in Int
    BY <2>1, NextDelayCapped, Zenon DEF IInv
  <2>4. DelaysPositive => delay' > 0
    BY <2>1, NextDelayPositive DEF IInv
  <2>5. Deadline' = Deadline /\ Deadline \in Int /\ (DelaysPositive' <=> DelaysPositive)
    BY <2>1 DEF Deadline, InitTimeout, DelaysPositive, IInv
  <2>6. DelaysPositive => late = 0
    BY <2>2 DEF IInv
  <2> QED BY <2>1, <2>2, <2>3, <2>4, <2>5, <2>6 DEF IInv
<1>6. CASE InitCancel
  BY <1>6, Zenon DEF InitCancel, shared, ivars, IInv, Deadline, InitTimeout, DelaysPositive
<1>7. CASE InitTick
  BY <1>7 DEF InitTick, SeesToken, AttemptExpired, shared, ivars, IInv, Deadline, InitTimeout,
              DelaysPositive
<1>8. CASE UNCHANGED <<bvars, ivars>>
  BY <1>8, Zenon DEF bvars, ivars, IInv, Deadline, InitTimeout, DelaysPositive
<1> QED BY <1>1, <1>2, <1>3, <1>4, <1>5, <1>6, <1>7, <1>8, Zenon DEF INext, Returns

\* provider_init_timeout bounds the whole initialisation, whatever the policy's delays,
\* multiplier and jitter are and whenever the token is cancelled.
THEOREM InitIsBounded == ISpec => []InitBounded
<1>1. IInit => IInv
  BY BackoffAssumption, ProviderInitAssumption
     DEF IInit, IInv, Deadline, InitTimeout, DelaysPositive
<1>2. IInv => InitBounded
  BY Zenon DEF IInv, InitBounded
<1> QED BY <1>1, <1>2, AttemptsStep, PTL DEF ISpec

-----------------------------------------------------------------------------
(* Managed state: the value under the lock, the channel and the epoch       *)

Seeding == {"init", "seed"}
Holding == {"held"} \cup SendFrom \cup BumpFrom \cup NotifyFrom
WriterPlaces == {"idle", "local", "resolve", "acquire"} \cup Seeding \cup Holding

MType ==
  /\ inner \in [Slots -> Int] /\ chan \in [Slots -> Int] /\ epoch \in [Slots -> Int]
  /\ dirty \in [Slots -> BOOLEAN]
  /\ wpc \in [Writers -> WriterPlaces] /\ wslot \in [Writers -> Slots]
  /\ slots \in 0..MaxSlot /\ slot \in 0..slots

\* The cells' get_or_try_init and the write lock admit one writer each.
OneWriter ==
  \A v, w \in Writers : v # w /\ wslot[v] = wslot[w] =>
    /\ ~(wpc[v] \in Seeding /\ wpc[w] \in Seeding)
    /\ ~(wpc[v] \in Holding /\ wpc[w] \in Holding)

\* A lock cell is empty while it is seeded, and set from then on.
CellsSet ==
  /\ \A m \in Slots : IF inner[m] = Unset THEN epoch[m] = 0 ELSE inner[m] >= 0 /\ chan[m] >= 0
  /\ \A m \in Slots : inner[m] = Unset => ~dirty[m]
  /\ \A w \in Writers : wpc[w] \in Seeding => inner[wslot[w]] = Unset
  /\ \A w \in Writers : wpc[w] \in {"acquire"} \cup Holding => inner[wslot[w]] # Unset

\* All three agree, and nothing is left to publish.
Level(m) == chan[m] = inner[m] /\ epoch[m] = inner[m]

\* Where the flag d, the epoch e, the channel c and the inner value i stand, by the place
\* of the writer that has the lock.
Stands(pc, d, e, c, i) ==
  /\ pc = "held" => IF d THEN e = c /\ i = c + 1 ELSE c = i /\ e = i
  /\ pc \in SendFrom => e = c /\ i = c + 1
  /\ pc \in BumpFrom => c = i /\ e + 1 = c
  /\ pc \in NotifyFrom => c = i /\ e = i

\* A slot that nobody holds is level, and a held one stands where its writer is.
Published ==
  /\ \A m \in Slots : inner[m] # Unset /\ ~Held(m) => Level(m) /\ ~dirty[m]
  /\ \A w \in Writers :
       LET m == wslot[w] IN Stands(wpc[w], dirty[m], epoch[m], chan[m], inner[m])

MInv == MType /\ OneWriter /\ CellsSet /\ Published

\* Every step of a writer, a reader or an override preserves the invariant.
LEMMA ManagedStep == MInv /\ [MNext]_mvars => MInv'
<1> SUFFICES ASSUME MInv, [MNext]_mvars PROVE MInv'
  BY Zenon
<1> USE ManagedAssumption
<1>1. ASSUME UNCHANGED <<inner, chan, epoch, dirty, wpc, wslot, slot, slots>> PROVE MInv'
  BY <1>1, Zenon DEF MInv, MType, OneWriter, CellsSet, Published, Stands, Level, Held
<1>2. CASE InsertSlot
  <2>1. MType'
    BY <1>2 DEF InsertSlot, writing, MInv, MType
  <2> QED BY <1>2, <2>1, Zenon DEF InsertSlot, writing, MInv, OneWriter, CellsSet, Published, Stands, Level, Held
<1>3. CASE MutateBinding \/ NotifyBinding
  BY <1>1, <1>3, Zenon DEF MutateBinding, NotifyBinding, cells, writing
<1>4. ASSUME NEW w \in Writers, WriterLookup(w) PROVE MInv'
  <2>1. MType'
    BY <1>4, Zenon DEF WriterLookup, MInv, MType, cells, scope, WriterPlaces
  <2>2. OneWriter'
    BY <1>4 DEF WriterLookup, MInv, OneWriter, Seeding, Holding, SendFrom, BumpFrom,
      NotifyFrom
  <2>3. CellsSet'
    BY <1>4 DEF WriterLookup, MInv, CellsSet, cells, Seeding, Holding, SendFrom, BumpFrom,
      NotifyFrom
  <2>4. Published'
    BY <1>4, Zenon DEF WriterLookup, MInv, MType, Published, Stands, Level, Held, cells, SendFrom, BumpFrom,
      NotifyFrom
  <2> QED BY <2>1, <2>2, <2>3, <2>4, Zenon DEF MInv
<1>5. ASSUME NEW w \in Writers, WriterSlot(w) PROVE MInv'
  <2>1. MType'
    BY <1>5, SMTT(60) DEF WriterSlot, MInv, MType, cells, scope, WriterPlaces, Slots
  <2>2. OneWriter'
    BY <1>5 DEF WriterSlot, MInv, OneWriter, Seeding, Holding, SendFrom, BumpFrom, NotifyFrom
  <2>3. CellsSet'
    BY <1>5, Zenon DEF WriterSlot, MInv, MType, CellsSet, cells, Seeding, Holding, SendFrom,
      BumpFrom, NotifyFrom
  <2>4. Published'
    BY <1>5 DEF WriterSlot, MInv, MType, Published, Stands, Level, Held, cells, SendFrom, BumpFrom,
      NotifyFrom
  <2> QED BY <2>1, <2>2, <2>3, <2>4, Zenon DEF MInv
<1>6. ASSUME NEW w \in Writers, LockResolved(w) PROVE MInv'
  <2>1. MType'
    BY <1>6, Zenon DEF LockResolved, MInv, MType, cells, scope, WriterPlaces
  <2>2. OneWriter'
    BY <1>6 DEF LockResolved, MInv, OneWriter, Seeding, Holding, SendFrom, BumpFrom,
      NotifyFrom
  <2>3. CellsSet'
    BY <1>6 DEF LockResolved, MInv, CellsSet, cells, Seeding
  <2>4. Published'
    BY <1>6, Zenon DEF LockResolved, MInv, MType, Published, Stands, Level, Held, cells, SendFrom, BumpFrom,
      NotifyFrom
  <2> QED BY <2>1, <2>2, <2>3, <2>4, Zenon DEF MInv
<1>7. ASSUME NEW w \in Writers, LockBegin(w) PROVE MInv'
  <2>1. MType'
    BY <1>7, Zenon DEF LockBegin, MInv, MType, cells, scope, Seeding, WriterPlaces
  <2>2. OneWriter'
    BY <1>7 DEF LockBegin, Locking, MInv, OneWriter, CellsSet, Seeding
  <2>3. CellsSet'
    BY <1>7 DEF LockBegin, MInv, CellsSet, cells, Holding, SendFrom, BumpFrom, NotifyFrom
  <2>4. Published'
    BY <1>7 DEF LockBegin, MInv, Published, Stands, Level, Held, cells, SendFrom, BumpFrom, NotifyFrom
  <2> QED BY <2>1, <2>2, <2>3, <2>4, Zenon DEF MInv
<1>8. ASSUME NEW w \in Writers, LockInitOk(w) PROVE MInv'
  <2>1. MType'
    BY <1>8, Zenon DEF LockInitOk, MInv, MType, scope, Seeding, WriterPlaces
  <2>2. OneWriter'
    BY <1>8 DEF LockInitOk, MInv, OneWriter, Seeding, Holding, SendFrom, BumpFrom, NotifyFrom
  <2>3. CellsSet'
    BY <1>8 DEF LockInitOk, MInv, CellsSet, Seeding, Holding, SendFrom, BumpFrom, NotifyFrom
  <2>4. Published'
    BY <1>8 DEF LockInitOk, MInv, Published, Stands, Level, Held, SendFrom, BumpFrom, NotifyFrom
  <2> QED BY <2>1, <2>2, <2>3, <2>4, Zenon DEF MInv
<1>9. ASSUME NEW w \in Writers, LockInitFails(w) PROVE MInv'
  <2>1. MType'
    BY <1>9 DEF LockInitFails, MInv, MType, cells, scope, WriterPlaces, Slots
  <2>2. OneWriter'
    BY <1>9 DEF LockInitFails, MInv, MType, OneWriter, Seeding, Holding, SendFrom, BumpFrom,
      NotifyFrom
  <2>3. CellsSet'
    BY <1>9, Zenon DEF LockInitFails, MInv, MType, CellsSet, cells, Seeding, Holding, SendFrom,
      BumpFrom, NotifyFrom
  <2>4. Published'
    BY <1>9 DEF LockInitFails, MInv, Published, Stands, Level, Held, cells, SendFrom, BumpFrom,
      NotifyFrom
  <2> QED BY <2>1, <2>2, <2>3, <2>4, Zenon DEF MInv
<1>10. ASSUME NEW w \in Writers, LockReady(w) PROVE MInv'
  <2>1. MType'
    BY <1>10 DEF LockReady, MInv, MType, scope, WriterPlaces
  <2>2. OneWriter'
    BY <1>10 DEF LockReady, MInv, OneWriter, Seeding, Holding, SendFrom, BumpFrom, NotifyFrom
  <2>3. CellsSet'
    BY <1>10 DEF LockReady, MInv, MType, OneWriter, CellsSet, Seeding, Unset
  <2>4. Published'
    <3> DEFINE m == wslot[w]
    <3>1. /\ m \in Slots /\ inner[m] = Unset /\ wpc[w] = "seed" /\ wpc'[w] = "acquire" /\ UNCHANGED wslot
          /\ inner'[m] = 0 /\ chan'[m] = 0 /\ epoch'[m] = 0 /\ ~dirty'[m]
      BY <1>10, Zenon DEF LockReady, MInv, MType, CellsSet, Seeding
    <3>2. \A k \in Slots \ {m} : UNCHANGED <<inner[k], chan[k], epoch[k], dirty[k]>>
      BY <1>10, Zenon DEF LockReady, MInv, MType
    <3>3. \A v \in Writers \ {w} : wpc'[v] = wpc[v] /\ wslot'[v] = wslot[v]
      BY <1>10, Zenon DEF LockReady, MInv, MType
    <3>4. \A v \in Writers : wpc[v] \in Holding => wslot[v] # m
      BY <3>1, Zenon DEF MInv, CellsSet
    <3>5. \A k \in Slots : Held(k)' <=> Held(k)
      BY <3>1, <3>3, Zenon DEF Held, SendFrom, BumpFrom, NotifyFrom
    <3> HIDE DEF m
    <3>6. \A k \in Slots : inner'[k] # Unset /\ ~Held(k)' => Level(k)' /\ ~dirty'[k]
      BY <3>1, <3>2, <3>5 DEF Level, MInv, Published, Stands
    <3> QED BY <3>1, <3>2, <3>3, <3>4, <3>6 DEF Published, Stands, Level, MInv, MType, Holding, SendFrom,
               BumpFrom, NotifyFrom
  <2> QED BY <2>1, <2>2, <2>3, <2>4, Zenon DEF MInv
<1>11. ASSUME NEW w \in Writers, Acquire(w) PROVE MInv'
  <2>1. MType'
    BY <1>11, Zenon DEF Acquire, MInv, MType, cells, scope, Holding, WriterPlaces
  <2>2. OneWriter'
    BY <1>11 DEF Acquire, MInv, OneWriter, Held, Seeding, Holding
  <2>3. CellsSet'
    <3>1. CellsSet /\ UNCHANGED <<inner, chan, epoch, dirty, wslot>> /\ wpc[w] = "acquire"
      BY <1>11, Zenon DEF Acquire, MInv, cells
    <3>2. \A v \in Writers : wpc'[v] = IF v = w THEN "held" ELSE wpc[v]
      BY <1>11, Zenon DEF Acquire, MInv, MType
    <3> QED BY <3>1, <3>2 DEF CellsSet, Seeding, Holding
  <2>4. Published'
    BY <1>11 DEF Acquire, MInv, MType, CellsSet, Published, Stands, Level, Held, cells, SendFrom,
      BumpFrom
  <2> QED BY <2>1, <2>2, <2>3, <2>4, Zenon DEF MInv
<1>12. ASSUME NEW w \in Writers, DerefMut(w) PROVE MInv'
  <2>1. MType'
    BY <1>12 DEF DerefMut, MInv, MType, scope
  <2>2. OneWriter'
    BY <1>12, Zenon DEF DerefMut, MInv, OneWriter
  <2>3. CellsSet'
    BY <1>12 DEF DerefMut, MInv, MType, CellsSet, Seeding, Holding, Unset
  <2>4. Published'
    <3> DEFINE m == wslot[w]
    <3>1. /\ m \in Slots /\ wpc[w] = "held" /\ UNCHANGED <<wslot, chan, epoch>>
          /\ inner'[m] = chan[m] + 1 /\ wpc'[w] = "held" /\ dirty'[m] = TRUE
      BY <1>12, Zenon DEF DerefMut, MInv, MType
    <3>2. epoch[m] = chan[m]
      <4>1. Stands(wpc[w], dirty[m], epoch[m], chan[m], inner[m])
        BY <3>1, Zenon DEF MInv, Published
      <4> QED BY <3>1, <4>1, Zenon DEF Stands
    <3>3. \A k \in Slots \ {m} : UNCHANGED <<inner[k], dirty[k]>>
      BY <1>12, Zenon DEF DerefMut, MInv, MType
    <3>4. \A v \in Writers \ {w} : wpc'[v] = wpc[v] /\ (wpc[v] \in Holding => wslot[v] # m)
      BY <1>12, Zenon DEF DerefMut, MInv, MType, OneWriter, Holding
    <3>5. wpc'[w] \in Holding
      BY <3>1, Zenon DEF Holding, SendFrom
    <3>6. \A k \in Slots : Held(k)' <=> Held(k)
      BY <3>1, <3>4, <3>5, Zenon DEF Held, Holding, SendFrom, BumpFrom, NotifyFrom
    <3>7. Held(m)
      BY <3>1, Zenon DEF Held
    <3> HIDE DEF m
    <3>8. \A k \in Slots : inner'[k] # Unset /\ ~Held(k)' => Level(k)' /\ ~dirty'[k]
      BY <3>1, <3>3, <3>6, <3>7, Zenon DEF Level, MInv, Published, Stands
    <3>9. "held" \notin SendFrom \cup BumpFrom \cup NotifyFrom
      BY Zenon DEF SendFrom, BumpFrom, NotifyFrom
    <3>10. ASSUME NEW v \in Writers
           PROVE  LET k == wslot'[v] IN Stands(wpc'[v], dirty'[k], epoch'[k], chan'[k], inner'[k])
      <4>1. CASE v = w
        BY <3>1, <3>2, <3>9, <4>1, Zenon DEF m, Stands
      <4>2. CASE v # w /\ wpc[v] \in Holding
        <5>1. wpc'[v] = wpc[v] /\ wslot'[v] = wslot[v] /\ wslot[v] \in Slots \ {m}
          BY <3>1, <3>4, <4>2, Zenon DEF MInv, MType
        <5>2. /\ inner'[wslot[v]] = inner[wslot[v]] /\ dirty'[wslot[v]] = dirty[wslot[v]]
              /\ chan' = chan /\ epoch' = epoch
          BY <3>1, <3>3, <5>1, Zenon
        <5> QED BY <5>1, <5>2, Zenon DEF MInv, Published
      <4>3. CASE v # w /\ wpc[v] \notin Holding
        BY <3>4, <4>3, Zenon DEF Holding, Stands
      <4> QED BY <4>1, <4>2, <4>3, Zenon
    <3> QED BY <3>8, <3>10, Zenon DEF Published
  <2> QED BY <2>1, <2>2, <2>3, <2>4, Zenon DEF MInv
<1>13. ASSUME NEW w \in Writers, PublishNew(w) PROVE MInv'
  <2>1. MType'
    BY <1>13 DEF PublishNew, MInv, MType, scope, Holding, WriterPlaces, SendFrom
  <2>2. OneWriter'
    <3>1. OneWriter /\ wslot' = wslot /\ wpc[w] = "held"
      BY <1>13, Zenon DEF PublishNew, MInv
    <3>2. \A v \in Writers : wpc'[v] = IF v = w THEN "send" ELSE wpc[v]
      BY <1>13, Zenon DEF PublishNew, MInv, MType
    <3> QED BY <3>1, <3>2 DEF OneWriter, Seeding, Holding, SendFrom
  <2>3. CellsSet'
    BY <1>13 DEF PublishNew, MInv, MType, OneWriter, CellsSet, Published, Stands, Level, Held,
      Seeding, Holding, Unset
  <2>4. Published'
    <3> DEFINE m == wslot[w]
    <3>1. /\ m \in Slots /\ wpc[w] = "held" /\ UNCHANGED <<wslot, chan, epoch>>
          /\ inner'[m] = chan[m] + 1 /\ wpc'[w] = "send"
      BY <1>13, Zenon DEF PublishNew, MInv, MType
    <3>2. epoch[m] = chan[m]
      BY <3>1, Zenon DEF MInv, Published, Stands, Level
    <3>3. \A k \in Slots \ {m} : UNCHANGED <<inner[k], dirty[k]>>
      BY <1>13, Zenon DEF PublishNew, MInv, MType
    <3>4. \A v \in Writers \ {w} : wpc'[v] = wpc[v] /\ (wpc[v] \in Holding => wslot[v] # m)
      BY <1>13, Zenon DEF PublishNew, MInv, MType, OneWriter, Holding
    <3>5. wpc'[w] \in Holding
      BY <3>1, Zenon DEF Holding, SendFrom
    <3>6. \A k \in Slots : Held(k)' <=> Held(k)
      BY <3>1, <3>4, <3>5, Zenon DEF Held, Holding, SendFrom, BumpFrom, NotifyFrom
    <3>7. Held(m)
      BY <3>1, Zenon DEF Held
    <3> HIDE DEF m
    <3>8. \A k \in Slots : inner'[k] # Unset /\ ~Held(k)' => Level(k)' /\ ~dirty'[k]
      BY <3>1, <3>3, <3>6, <3>7, Zenon DEF Level, MInv, Published, Stands
    <3>9. "send" # "held" /\ "send" \notin BumpFrom \cup NotifyFrom
      BY Zenon DEF SendFrom, BumpFrom, NotifyFrom
    <3>10. ASSUME NEW v \in Writers
           PROVE  LET k == wslot'[v] IN Stands(wpc'[v], dirty'[k], epoch'[k], chan'[k], inner'[k])
      <4>1. CASE v = w
        BY <3>1, <3>2, <3>9, <4>1, Zenon DEF m, Stands
      <4>2. CASE v # w /\ wpc[v] \in Holding
        <5>1. wpc'[v] = wpc[v] /\ wslot'[v] = wslot[v] /\ wslot[v] \in Slots \ {m}
          BY <3>1, <3>4, <4>2, Zenon DEF MInv, MType
        <5>2. /\ inner'[wslot[v]] = inner[wslot[v]] /\ dirty'[wslot[v]] = dirty[wslot[v]]
              /\ chan' = chan /\ epoch' = epoch
          BY <3>1, <3>3, <5>1, Zenon
        <5> QED BY <5>1, <5>2, Zenon DEF MInv, Published
      <4>3. CASE v # w /\ wpc[v] \notin Holding
        BY <3>4, <4>3, Zenon DEF Holding, Stands
      <4> QED BY <4>1, <4>2, <4>3, Zenon
    <3> QED BY <3>8, <3>10, Zenon DEF Published
  <2> QED BY <2>1, <2>2, <2>3, <2>4, Zenon DEF MInv
<1>14. ASSUME NEW w \in Writers, Commit(w) PROVE MInv'
  <2>1. MType'
    BY <1>14, Zenon DEF Commit, MInv, MType, cells, scope, Holding, WriterPlaces, SendFrom
  <2>2. OneWriter'
    <3>1. \A v \in Writers : wpc'[v] = IF v = w THEN "send" ELSE wpc[v]
      BY <1>14, Zenon DEF Commit, MInv, MType
    <3>2. /\ "send" \in Holding /\ wpc[w] \in Holding /\ "send" \notin Seeding
          /\ wslot' = wslot
      BY <1>14 DEF Commit, Seeding, Holding, SendFrom
    <3> QED BY <3>1, <3>2, Zenon DEF MInv, OneWriter
  <2>3. CellsSet'
    BY <1>14 DEF Commit, MInv, CellsSet, cells, Seeding, Holding
  <2>4. Published'
    BY <1>14 DEF Commit, MInv, Published, Stands, Level, Held, cells, SendFrom, BumpFrom, NotifyFrom
  <2> QED BY <2>1, <2>2, <2>3, <2>4, Zenon DEF MInv
<1>15. ASSUME NEW w \in Writers, DropGuard(w) PROVE MInv'
  <2>1. MType'
    BY <1>15, SMTT(60) DEF DropGuard, MInv, MType, cells, scope, Holding, WriterPlaces, SendFrom, Slots
  <2>2. OneWriter'
    BY <1>15 DEF DropGuard, MInv, MType, OneWriter, Seeding, Holding, SendFrom, BumpFrom,
      NotifyFrom
  <2>3. CellsSet'
    BY <1>15, Zenon DEF DropGuard, MInv, MType, CellsSet, cells, Seeding, Holding, SendFrom,
      BumpFrom, NotifyFrom
  <2>4. Published'
    BY <1>15 DEF DropGuard, MInv, MType, Published, Stands, Level, Held, cells, SendFrom, BumpFrom,
      NotifyFrom
  <2> QED BY <2>1, <2>2, <2>3, <2>4, Zenon DEF MInv
<1>16. ASSUME NEW w \in Writers, SendReplace(w) PROVE MInv'
  <2>1. MType'
    BY <1>16, Zenon DEF SendReplace, MInv, MType, scope, Holding, WriterPlaces, BumpFrom
  <2>2. OneWriter'
    BY <1>16 DEF SendReplace, MInv, OneWriter, Seeding, Holding
  <2>3. CellsSet'
    BY <1>16 DEF SendReplace, MInv, CellsSet, Seeding, Holding
  <2>4. Published'
    BY <1>16 DEF SendReplace, MInv, MType, OneWriter, Published, Stands, Level, Held, Holding,
      SendFrom, BumpFrom, NotifyFrom
  <2> QED BY <2>1, <2>2, <2>3, <2>4, Zenon DEF MInv
<1>17. ASSUME NEW w \in Writers, BumpEpoch(w) PROVE MInv'
  <2>1. MType'
    BY <1>17 DEF BumpEpoch, MInv, MType, scope, Holding, WriterPlaces, NotifyFrom
  <2>2. OneWriter'
    BY <1>17 DEF BumpEpoch, MInv, OneWriter, Seeding, Holding
  <2>3. CellsSet'
    BY <1>17 DEF BumpEpoch, MInv, CellsSet, Seeding, Holding
  <2>4. Published'
    BY <1>17 DEF BumpEpoch, MInv, MType, OneWriter, Published, Stands, Level, Held, Holding, SendFrom,
      BumpFrom, NotifyFrom
  <2> QED BY <2>1, <2>2, <2>3, <2>4, Zenon DEF MInv
<1>18. ASSUME NEW w \in Writers, NotifyWaiters(w) PROVE MInv'
  <2>1. MType'
    BY <1>18, SMTT(60) DEF NotifyWaiters, MInv, MType, cells, scope, Holding, WriterPlaces, Slots
  <2>2. OneWriter'
    BY <1>18 DEF NotifyWaiters, MInv, MType, OneWriter, Seeding, Holding, SendFrom, BumpFrom,
      NotifyFrom
  <2>3. CellsSet'
    BY <1>18, Zenon DEF NotifyWaiters, MInv, MType, CellsSet, cells, Seeding, Holding, SendFrom,
      BumpFrom, NotifyFrom
  <2>4. Published'
    BY <1>18 DEF NotifyWaiters, MInv, MType, Published, Stands, Level, Held, cells, SendFrom,
      BumpFrom, NotifyFrom
  <2> QED BY <2>1, <2>2, <2>3, <2>4, Zenon DEF MInv
<1>19. ASSUME NEW r \in Readers, StartWatches(r) \/ Snapshot(r) PROVE MInv'
  <2>1. UNCHANGED <<inner, chan, epoch, scope, writing>>
    BY <1>19, Zenon DEF StartWatches, WatchBinding, WatchSlot, WatchEpoch, Snapshot, ReaderLookup,
      ReaderSlot, ReadChannel, ReadCache, CacheBegin, CacheInitOk, CacheInitFails,
      BodyReturns, cells
  <2> QED BY <1>1, <2>1, Zenon DEF scope, writing
<1>20. ASSUME NEW r \in Readers, ValueWatch(r) \/ BindingWatch(r) PROVE MInv'
  <2>1. ASSUME NEW w, Polled(r, w) PROVE MInv'
    BY <1>1, <2>1, Zenon DEF Polled, cells, scope, writing
  <2> QED BY <1>20, <2>1, Zenon DEF ValueWatch, BindingWatch
<1>21. CASE UNCHANGED mvars
  BY <1>1, <1>21, Zenon DEF mvars
<1> QED
  BY <1>2, <1>3, <1>4, <1>5, <1>6, <1>7, <1>8, <1>9, <1>10, <1>11, <1>12, <1>13, <1>14, <1>15,
    <1>16, <1>17, <1>18, <1>19, <1>20, <1>21, Zenon DEF MNext, Resolve, Write, PublishStep

\* Once no guard is held, the snapshots of a slot show everything that was written under
\* its lock, whatever mix of deref_mut, commit, publish and Drop the writers used.
THEOREM SnapshotsAreLatest == MSpec => []SnapshotIsLatest
<1>1. MInit => MInv
  BY ManagedAssumption DEF MInit, MInv, MType, OneWriter, CellsSet, Published, Stands, Slots, Unset,
    Seeding, Holding, WriterPlaces, SendFrom, BumpFrom, NotifyFrom
<1>2. MInv => SnapshotIsLatest
  BY Zenon DEF MInv, Published, Stands, Level, SnapshotIsLatest
<1> QED BY <1>1, <1>2, ManagedStep, PTL DEF MSpec

-----------------------------------------------------------------------------
(* Eager initialisation: the graph, the order and the OnceCells             *)

Frames == [p : Providers, by : {"eager", "resolve"}, at : {"lookup", "init"}, todo : SUBSET Providers]

GType ==
  /\ deps \in [Providers -> SUBSET Providers] /\ roots \subseteq Providers
  /\ filled \subseteq Providers
  /\ via \in [Providers -> {"none", "eager", "resolve"}]
  /\ initRuns \in [Providers -> Nat]
  /\ stack \in [Tasks -> Seq(Frames)]
  /\ result \in [Tasks -> {"Ok"} \cup Errors]
  /\ order \in Seq(Providers)

\* Which tasks resolve in which phase of the startup pipeline.
Pipeline ==
  /\ phase \in {"validate", "eager", "running", "failed"}
  /\ phase = "eager" => \A t \in Generations : stack[t] = <<>>
  /\ phase = "running" => stack[Boot] = <<>>
  /\ phase \in {"validate", "failed"} => \A t \in Tasks : stack[t] = <<>>

\* A frame that is not the last one waits for a parameter with its cell's permit; only
\* the bottom frame of the startup is entered by the init function, and the others of
\* the startup are reached from it.
StackShape ==
  \A t \in Tasks : \A i \in 1..Len(stack[t]) :
    /\ i < Len(stack[t]) => stack[t][i].at = "init"
    /\ stack[t][i].todo \subseteq deps[stack[t][i].p]
    /\ stack[t][i].by = IF t = Boot /\ i = 1 THEN "eager" ELSE "resolve"
    /\ t = Boot /\ i > 1 => stack[t][i].p \in Closure(deps, deps[stack[t][1].p])

\* The OnceCells: an empty one has at most one holder of its permit, a set one none.
RunsCounted == \A p \in Providers : initRuns[p] = IF p \in filled THEN 1 ELSE 0
InitUnfilled ==
  \A t \in Tasks : \A i \in 1..Len(stack[t]) :
    stack[t][i].at = "init" => stack[t][i].p \notin filled
InitSingle ==
  \A t, u \in Tasks : \A i \in 1..Len(stack[t]) : \A j \in 1..Len(stack[u]) :
    stack[t][i].at = "init" /\ stack[u][j].at = "init" /\ stack[t][i].p = stack[u][j].p =>
      t = u /\ i = j
OncePerCell == RunsCounted /\ InitUnfilled /\ InitSingle

\* The eager targets still to come, in an order in which none is needed by an earlier
\* one; the one being made is needed by none of itself and needs none of them.
OrderLeft ==
  phase = "eager" =>
    /\ \A p \in Providers : p \notin Closure(deps, deps[p])
    /\ \A i, j \in 1..Len(order) :
         i < j => order[i] # order[j] /\ order[j] \notin Closure(deps, deps[order[i]])
    /\ stack[Boot] # <<>> => \A j \in 1..Len(order) :
         order[j] # stack[Boot][1].p /\ order[j] \notin Closure(deps, deps[stack[Boot][1].p])
    /\ result[Boot] = "Ok" => \A p \in Targets \ filled :
         \/ \E i \in 1..Len(order) : order[i] = p
         \/ stack[Boot] # <<>> /\ stack[Boot][1].p = p

\* Every eager target that has its value was made by its own init function.
EagerMade ==
  /\ \A p \in filled \cap Targets : via[p] = "eager"
  /\ phase = "running" => Targets \subseteq filled

GInv == GType /\ Pipeline /\ StackShape /\ OncePerCell /\ OrderLeft /\ EagerMade

\* The closure has its seed and, with a provider, its parameters.
LEMMA ClosureFacts ==
  ASSUME NEW D \in [Providers -> SUBSET Providers], NEW S \in SUBSET Providers
  PROVE  /\ Closure(D, S) \subseteq Providers
         /\ S \subseteq Closure(D, S)
         /\ \A q \in Closure(D, S) : D[q] \subseteq Closure(D, S)
BY Zenon DEF Closure

\* toposort lists every target: an order without repetition that is as long as the set
\* of targets leaves none out.
LEMMA OrderComplete ==
  ASSUME GType, NEW f \in EagerOrders
  PROVE  /\ f \in Seq(Providers)
         /\ \A i, j \in 1..Len(f) : i < j => f[i] # f[j] /\ f[j] \notin Closure(deps, deps[f[i]])
         /\ \A p \in Targets : \E i \in 1..Len(f) : f[i] = p
<1>1. Targets \subseteq Providers
  BY ClosureFacts, Zenon DEF GType, Targets, Reachable
<1>2. IsFiniteSet(Targets)
  BY <1>1, GraphAssumption, FS_Subset, Zenon
<1>3. PICK n \in Nat : n = Cardinality(Targets)
  BY <1>2, FS_CardinalityType, Zenon
<1>4. /\ f \in [1..n -> Targets]
      /\ \A i, j \in 1..n : i < j => f[i] # f[j] /\ f[j] \notin Closure(deps, deps[f[i]])
  BY <1>3, Zenon DEF EagerOrders
<1>5. f \in Seq(Providers) /\ Len(f) = n
  BY <1>1, <1>4
<1>6. ASSUME NEW p \in Targets, \A i \in 1..n : f[i] # p PROVE FALSE
  <2>1. f \in [1..n -> Targets \ {p}]
    BY <1>4, <1>6, Zenon
  <2>2. IsFiniteSet(Targets \ {p}) /\ Cardinality(Targets \ {p}) = n - 1
    BY <1>2, <1>3, FS_RemoveElement, Zenon
  <2>3. IsFiniteSet(1..n) /\ Cardinality(1..n) = n
    BY FS_Interval
  <2>4. PICK i \in 1..n, j \in 1..n : i # j /\ f[i] = f[j]
    BY <2>1, <2>2, <2>3, FS_PigeonHole
  <2> QED BY <1>4, <2>4
<1> QED BY <1>4, <1>5, <1>6, Zenon

\* Two frames that run the same provider's init are one frame.
LEMMA OneInit ==
  ASSUME OncePerCell, NEW u \in Tasks, NEW v \in Tasks,
         NEW i \in 1..Len(stack[u]), NEW j \in 1..Len(stack[v]),
         stack[u][i].at = "init", stack[v][j].at = "init", stack[u][i].p = stack[v][j].p
  PROVE  u = v /\ i = j
BY DEF OncePerCell, RunsCounted, InitUnfilled, InitSingle

\* Where the cells stay as they are and no frame begins an init, nothing is made twice.
LEMMA CellsKept ==
  ASSUME OncePerCell, filled' = filled, initRuns' = initRuns,
         \A u \in Tasks : \A i \in 1..Len(stack'[u]) : stack'[u][i].at = "init" =>
           i \in 1..Len(stack[u]) /\ stack[u][i].at = "init" /\ stack'[u][i].p = stack[u][i].p
  PROVE  OncePerCell'
<1>1. RunsCounted' /\ InitUnfilled'
  BY Zenon DEF OncePerCell, RunsCounted, InitUnfilled
<1>2. InitSingle'
  <2> SUFFICES ASSUME NEW u \in Tasks, NEW v \in Tasks,
                      NEW i \in 1..Len(stack'[u]), NEW j \in 1..Len(stack'[v]),
                      stack'[u][i].at = "init", stack'[v][j].at = "init",
                      stack'[u][i].p = stack'[v][j].p
               PROVE  u = v /\ i = j
    BY Zenon DEF InitSingle
  <2>1. /\ i \in 1..Len(stack[u]) /\ stack[u][i].at = "init" /\ stack'[u][i].p = stack[u][i].p
        /\ j \in 1..Len(stack[v]) /\ stack[v][j].at = "init" /\ stack'[v][j].p = stack[v][j].p
    BY Zenon
  <2>2. stack[u][i].p = stack[v][j].p
    BY <2>1, Zenon
  <2> QED BY <2>1, <2>2, OneInit
<1> QED BY <1>1, <1>2, Zenon DEF OncePerCell

\* The first place of a sequence that is not empty.
LEMMA HasFirst ==
  ASSUME NEW S, NEW s \in Seq(S), s # <<>>
  PROVE  1 \in 1..Len(s) /\ Len(s) > 0
OBVIOUS

\* A place among n + 1 is the last or one of the others.
LEMMA LastOrBefore ==
  ASSUME NEW n \in Nat, NEW i \in 1..(n + 1)
  PROVE  i \in 1..n \/ i = n + 1
OBVIOUS

\* A task that resolves has a frame.
LEMMA Occupied ==
  ASSUME GType, NEW t \in Tasks, Resolving(t)
  PROVE  stack[t] \in Seq(Frames) /\ Len(stack[t]) > 0
<1>1. stack[t] \in Seq(Frames) /\ stack[t] # <<>>
  BY Zenon DEF GType, Resolving
<1> QED BY <1>1, HasFirst, Zenon

\* A frame returns.
LEMMA Popped ==
  ASSUME GType, NEW t \in Tasks, Resolving(t), stack' = [stack EXCEPT ![t] = Pop(t)]
  PROVE  /\ stack' \in [Tasks -> Seq(Frames)]
         /\ Len(stack'[t]) = Len(stack[t]) - 1
         /\ \A i \in 1..Len(stack'[t]) : stack'[t][i] = stack[t][i]
         /\ \A u \in Tasks \ {t} : stack'[u] = stack[u]
<1>1. stack[t] \in Seq(Frames) /\ Len(stack[t]) > 0
  BY Occupied, Zenon
<1>2. PICK s \in Seq(Frames) : s = stack[t]
  BY <1>1, Zenon
<1>3. /\ SubSeq(s, 1, Len(s) - 1) \in Seq(Frames)
      /\ Len(SubSeq(s, 1, Len(s) - 1)) = Len(s) - 1
      /\ \A i \in 1..Len(s) - 1 : SubSeq(s, 1, Len(s) - 1)[i] = s[i]
  BY <1>1, <1>2
<1> QED BY <1>2, <1>3, Zenon DEF Pop, GType

\* The innermost frame takes the permit of its cell.
LEMMA Begun ==
  ASSUME GType, NEW t \in Tasks, Resolving(t), stack' = SetTop(t, [Top(t) EXCEPT !.at = "init"])
  PROVE  /\ stack' \in [Tasks -> Seq(Frames)]
         /\ Len(stack'[t]) = Len(stack[t])
         /\ \A i \in 1..Len(stack[t]) : i # Len(stack[t]) => stack'[t][i] = stack[t][i]
         /\ stack'[t][Len(stack[t])] = [Top(t) EXCEPT !.at = "init"]
         /\ \A u \in Tasks \ {t} : stack'[u] = stack[u]
<1>1. stack[t] \in Seq(Frames) /\ Len(stack[t]) > 0
  BY Occupied, Zenon
<1>2. PICK f \in Frames : f = [Top(t) EXCEPT !.at = "init"]
  <2>1. Top(t) \in Frames
    BY <1>1 DEF Top
  <2> QED BY <2>1, Zenon DEF Frames
<1> QED BY <1>1, <1>2 DEF SetTop, GType

\* A resolution begins: the task's stack has one frame.
LEMMA Pushed ==
  ASSUME GType, NEW t \in Tasks, NEW p \in Providers, NEW by \in {"eager", "resolve"},
         stack' = [stack EXCEPT ![t] = <<Frame(p, by)>>]
  PROVE  /\ stack' \in [Tasks -> Seq(Frames)]
         /\ Len(stack'[t]) = 1 /\ stack'[t][1] = Frame(p, by)
         /\ \A u \in Tasks \ {t} : stack'[u] = stack[u]
<1>1. Frame(p, by) \in Frames
  BY Zenon DEF Frame, Frames, GType
<1> QED BY <1>1 DEF GType

\* The innermost frame calls the resolve function of a parameter.
LEMMA Deepened ==
  ASSUME GType, NEW t \in Tasks, Resolving(t), NEW d \in Top(t).todo,
         stack' = [stack EXCEPT ![t] =
                     Append(Pop(t), [Top(t) EXCEPT !.todo = @ \ {d}]) \o <<Frame(d, "resolve")>>]
  PROVE  /\ stack' \in [Tasks -> Seq(Frames)]
         /\ Len(stack'[t]) = Len(stack[t]) + 1
         /\ \A i \in 1..Len(stack[t]) : i # Len(stack[t]) => stack'[t][i] = stack[t][i]
         /\ stack'[t][Len(stack[t])] = [Top(t) EXCEPT !.todo = @ \ {d}]
         /\ stack'[t][Len(stack[t]) + 1] = Frame(d, "resolve")
         /\ \A u \in Tasks \ {t} : stack'[u] = stack[u]
<1>1. stack[t] \in Seq(Frames) /\ Len(stack[t]) > 0
  BY Occupied, Zenon
<1>2. Top(t) \in Frames
  BY <1>1 DEF Top
<1>3. PICK f \in Frames : f = [Top(t) EXCEPT !.todo = @ \ {d}]
  BY <1>2, Zenon DEF Frames
<1>4. PICK g \in Frames : g = Frame(d, "resolve")
  BY <1>2, Zenon DEF Frame, Frames, GType
<1>5. PICK s \in Seq(Frames) : s = stack[t]
  BY <1>1, Zenon
<1>6. /\ SubSeq(s, 1, Len(s) - 1) \in Seq(Frames)
      /\ Len(SubSeq(s, 1, Len(s) - 1)) = Len(s) - 1
      /\ \A i \in 1..Len(s) - 1 : SubSeq(s, 1, Len(s) - 1)[i] = s[i]
  BY <1>1, <1>5
<1>7. PICK q \in Seq(Frames) : q = SubSeq(s, 1, Len(s) - 1)
  BY <1>6, Zenon
<1>8. PICK r \in Seq(Frames) :
        /\ r = Append(q, f) \o <<g>>
        /\ Len(r) = Len(q) + 2 /\ \A i \in 1..Len(q) : r[i] = q[i]
        /\ r[Len(q) + 1] = f /\ r[Len(q) + 2] = g
  <2>1. /\ Append(q, f) \o <<g>> \in Seq(Frames)
        /\ Len(Append(q, f) \o <<g>>) = Len(q) + 2
        /\ \A i \in 1..Len(q) : (Append(q, f) \o <<g>>)[i] = q[i]
        /\ (Append(q, f) \o <<g>>)[Len(q) + 1] = f
        /\ (Append(q, f) \o <<g>>)[Len(q) + 2] = g
    OBVIOUS
  <2> QED BY <2>1, Zenon
<1>9. /\ Len(r) = Len(s) + 1 /\ \A i \in 1..Len(s) : i # Len(s) => r[i] = s[i]
      /\ r[Len(s)] = f /\ r[Len(s) + 1] = g
  <2>1. Len(q) = Len(s) - 1 /\ \A i \in 1..Len(s) - 1 : q[i] = s[i]
    BY <1>6, <1>7, Zenon
  <2>2. Len(s) \in Nat /\ Len(q) + 1 = Len(s) /\ Len(q) + 2 = Len(s) + 1
    BY <2>1
  <2>3. \A i \in 1..Len(s) : i # Len(s) => i \in 1..Len(q) /\ i \in 1..Len(s) - 1
    BY <2>1, <2>2
  <2>4. \A i \in 1..Len(s) : i # Len(s) => r[i] = s[i]
    BY <1>8, <2>1, <2>3, Zenon
  <2> QED BY <1>8, <2>2, <2>4, Zenon
<1>10. stack' = [stack EXCEPT ![t] = r]
  BY <1>3, <1>4, <1>5, <1>7, <1>8, Zenon DEF Pop
<1> QED BY <1>3, <1>4, <1>5, <1>9, <1>10, Zenon DEF GType

\* What a returning frame leaves alone: the frames below it, the pipeline and the shape of
\* the stacks.
LEMMA PopKeeps ==
  ASSUME GInv, NEW t \in Tasks, Resolving(t), stack' = [stack EXCEPT ![t] = Pop(t)],
         UNCHANGED <<deps, eager, roots, phase, order>>
  PROVE  /\ stack' \in [Tasks -> Seq(Frames)]
         /\ \A u \in Tasks : \A i \in 1..Len(stack'[u]) :
              i \in 1..Len(stack[u]) /\ stack'[u][i] = stack[u][i]
         /\ \A i \in 1..Len(stack'[t]) : i # Len(stack[t])
         /\ Pipeline' /\ StackShape'
<1>1. /\ stack' \in [Tasks -> Seq(Frames)]
      /\ Len(stack'[t]) = Len(stack[t]) - 1
      /\ \A i \in 1..Len(stack'[t]) : stack'[t][i] = stack[t][i]
      /\ \A u \in Tasks \ {t} : stack'[u] = stack[u]
  BY Popped, Zenon DEF GInv
<1>2. \A u \in Tasks : Len(stack'[u]) \in Nat /\ Len(stack[u]) \in Nat
  BY <1>1 DEF GInv, GType
<1>3. \A u \in Tasks : Len(stack'[u]) <= Len(stack[u])
  BY <1>1, <1>2
<1>4. \A u \in Tasks : \A i \in 1..Len(stack'[u]) :
        i \in 1..Len(stack[u]) /\ stack'[u][i] = stack[u][i]
  BY <1>1, <1>2, <1>3
<1>5. \A i \in 1..Len(stack'[t]) : i # Len(stack[t])
  BY <1>1, <1>2
<1>6. Pipeline'
  BY <1>1, Zenon DEF GInv, Pipeline, Resolving, Tasks
<1>7. StackShape'
  <2> SUFFICES ASSUME NEW u \in Tasks, NEW i \in 1..Len(stack'[u])
               PROVE  /\ i < Len(stack'[u]) => stack'[u][i].at = "init"
                      /\ stack'[u][i].todo \subseteq deps[stack'[u][i].p]
                      /\ stack'[u][i].by = IF u = Boot /\ i = 1 THEN "eager" ELSE "resolve"
                      /\ u = Boot /\ i > 1 => stack'[u][i].p \in Closure(deps, deps[stack'[u][1].p])
    BY DEF StackShape
  <2>1. i \in 1..Len(stack[u]) /\ stack'[u][i] = stack[u][i] /\ stack'[u][1] = stack[u][1]
    BY <1>2, <1>4
  <2>2. i < Len(stack'[u]) => i < Len(stack[u])
    BY <1>2, <1>3
  <2> QED BY <2>1, <2>2 DEF GInv, StackShape
<1> QED BY <1>1, <1>4, <1>5, <1>6, <1>7, Zenon

\* With its other conjuncts, the order and the origin of the values survive a step that
\* fills no cell and moves no bottom frame of the startup.
LEMMA OrderKept ==
  ASSUME GInv, UNCHANGED <<deps, eager, roots, phase, order, filled, via>>,
         stack'[Boot] # <<>> => stack[Boot] # <<>> /\ stack'[Boot][1].p = stack[Boot][1].p,
         result'[Boot] = "Ok" =>
           /\ result[Boot] = "Ok"
           /\ stack[Boot] # <<>> => stack'[Boot] # <<>> \/ stack[Boot][1].p \in filled
  PROVE  OrderLeft' /\ EagerMade'
<1>1. Targets' = Targets
  BY Zenon DEF Targets, Reachable
<1>2. EagerMade'
  BY <1>1, Zenon DEF GInv, EagerMade
<1>3. OrderLeft'
  BY <1>1 DEF GInv, OrderLeft
<1> QED BY <1>2, <1>3, Zenon

\* The steps of the startup pipeline preserve the invariant.
LEMMA StartupStep ==
  ASSUME GInv, Validate \/ EagerNext \/ EagerEnd
  PROVE  GInv'
<1>1. CASE Validate
  <2> USE <1>1
  <2>1. /\ UNCHANGED <<deps, eager, roots, filled, via, initRuns, stack, result>>
        /\ phase = "validate"
        /\ \/ phase' = "failed" /\ order' = order
           \/ ~Cyclic /\ phase' = "eager" /\ order' \in EagerOrders
    BY Zenon DEF Validate, registry, cellvars
  <2>2. Targets' = Targets
    BY <2>1, Zenon DEF Targets, Reachable
  <2>3. GType'
    BY <2>1, OrderComplete, Zenon DEF GInv, GType
  <2>4. Pipeline'
    BY <2>1, Zenon DEF GInv, Pipeline, Tasks
  <2>5. StackShape' /\ OncePerCell'
    BY <2>1 DEF GInv, StackShape, OncePerCell, RunsCounted, InitUnfilled, InitSingle
  <2>6. OrderLeft'
    <3> SUFFICES ASSUME phase' = "eager" PROVE OrderLeft'
      BY Zenon DEF OrderLeft
    <3>1. ~Cyclic /\ order' \in EagerOrders /\ stack'[Boot] = <<>>
      BY <2>1, Zenon DEF GInv, Pipeline, Tasks
    <3>2. /\ \A i, j \in 1..Len(order') :
               i < j => order'[i] # order'[j] /\ order'[j] \notin Closure(deps, deps[order'[i]])
          /\ \A p \in Targets : \E i \in 1..Len(order') : order'[i] = p
      BY <3>1, OrderComplete, Zenon DEF GInv
    <3> QED BY <2>1, <2>2, <3>1, <3>2, Zenon DEF OrderLeft, Cyclic
  <2>7. EagerMade'
    BY <2>1, <2>2, Zenon DEF GInv, EagerMade
  <2> QED BY <2>3, <2>4, <2>5, <2>6, <2>7, Zenon DEF GInv
<1>2. CASE EagerNext
  <2> USE <1>2
  <2>1. /\ UNCHANGED <<deps, eager, roots, phase, filled, via, initRuns, result>>
        /\ phase = "eager" /\ stack[Boot] = <<>> /\ order # <<>> /\ order' = Tail(order)
        /\ stack' = [stack EXCEPT ![Boot] = <<Frame(Head(order), "eager")>>]
    BY Zenon DEF EagerNext, Resolving, registry, cellvars
  <2>2. PICK p \in Providers : p = Head(order) /\ p = order[1]
    BY <2>1 DEF GInv, GType
  <2>3. /\ order' \in Seq(Providers) /\ Len(order') = Len(order) - 1 /\ Len(order) \in Nat \ {0}
        /\ \A i \in 1..Len(order') : order'[i] = order[i + 1]
    BY <2>1 DEF GInv, GType
  <2>4. /\ stack' \in [Tasks -> Seq(Frames)]
        /\ Len(stack'[Boot]) = 1 /\ stack'[Boot][1] = Frame(p, "eager")
        /\ \A u \in Tasks \ {Boot} : stack'[u] = stack[u]
    BY <2>1, <2>2, Pushed, Zenon DEF GInv, Tasks
  <2>5. GType'
    BY <2>1, <2>3, <2>4, Zenon DEF GInv, GType
  <2>6. Pipeline'
    BY <2>1, <2>4, GraphAssumption, Zenon DEF GInv, Pipeline, Tasks
  <2>7. StackShape'
    <3>1. StackShape /\ deps' = deps
      BY <2>1, Zenon DEF GInv
    <3>2. ASSUME NEW u \in Tasks, NEW i \in 1..Len(stack'[u])
          PROVE  /\ i < Len(stack'[u]) => stack'[u][i].at = "init"
                 /\ stack'[u][i].todo \subseteq deps[stack'[u][i].p]
                 /\ stack'[u][i].by = IF u = Boot /\ i = 1 THEN "eager" ELSE "resolve"
                 /\ u = Boot /\ i > 1 => stack'[u][i].p \in Closure(deps, deps[stack'[u][1].p])
      <4>1. CASE u = Boot
        <5>1. i = 1 /\ Len(stack'[u]) = 1 /\ ~(i < Len(stack'[u])) /\ ~(i > 1)
          <6>1. Len(stack'[u]) = 1
            BY <2>4, <4>1, Zenon
          <6> QED BY <6>1
        <5>2. /\ Frame(p, "eager").todo = deps[Frame(p, "eager").p]
              /\ Frame(p, "eager").by = "eager"
          BY DEF Frame
        <5>3. stack'[u][i] = Frame(p, "eager")
          BY <2>4, <4>1, <5>1, Zenon
        <5> QED BY <4>1, <5>1, <5>2, <5>3, Zenon
      <4>2. CASE u # Boot
        <5>1. stack'[u] = stack[u]
          BY <2>4, <4>2, Zenon
        <5>2. /\ i < Len(stack[u]) => stack[u][i].at = "init"
              /\ stack[u][i].todo \subseteq deps[stack[u][i].p]
              /\ stack[u][i].by = "resolve"
          BY <3>1, <4>2, <5>1, Zenon DEF StackShape
        <5> QED BY <4>2, <5>1, <5>2, Zenon
      <4> QED BY <4>1, <4>2, Zenon
    <3> QED BY <3>1, <3>2, Zenon DEF StackShape
  <2>8. OncePerCell'
    BY <2>1, <2>4 DEF GInv, OncePerCell, RunsCounted, InitUnfilled, InitSingle, Frame
  <2>9. OrderLeft'
    <3>1. Targets' = Targets
      BY <2>1, Zenon DEF Targets, Reachable
    <3>2. stack'[Boot][1].p = p /\ stack'[Boot] # <<>>
      BY <2>4 DEF Frame
    <3>3. \A i \in 1..Len(order') : i + 1 \in 1..Len(order) /\ 1 \in 1..Len(order) /\ 1 < i + 1
      BY <2>3
    <3>4. \A i \in 1..Len(order) : i = 1 \/ (i - 1 \in 1..Len(order') /\ order'[i - 1] = order[i])
      BY <2>3
    <3>5. \A i, j \in 1..Len(order') :
            i < j => order'[i] # order'[j] /\ order'[j] \notin Closure(deps, deps[order'[i]])
      BY <2>1, <2>3, <3>3 DEF GInv, OrderLeft
    <3>6. \A j \in 1..Len(order') : order'[j] # p /\ order'[j] \notin Closure(deps, deps[p])
      BY <2>1, <2>2, <2>3, <3>3 DEF GInv, OrderLeft
    <3>7. result[Boot] = "Ok" =>
            \A q \in Targets \ filled : q = p \/ \E i \in 1..Len(order') : order'[i] = q
      BY <2>1, <2>2, <3>4 DEF GInv, OrderLeft
    <3> QED BY <2>1, <3>1, <3>2, <3>5, <3>6, <3>7 DEF GInv, OrderLeft
  <2>10. EagerMade'
    BY <2>1, Zenon DEF GInv, EagerMade, Targets, Reachable
  <2> QED BY <2>5, <2>6, <2>7, <2>8, <2>9, <2>10, Zenon DEF GInv
<1>3. CASE EagerEnd
  <2> USE <1>3
  <2>1. /\ UNCHANGED <<deps, eager, roots, order, filled, via, initRuns, stack, result>>
        /\ phase = "eager" /\ stack[Boot] = <<>>
        /\ \/ result[Boot] = "Ok" /\ order = <<>> /\ phase' = "running"
           \/ phase' = "failed"
    BY Zenon DEF EagerEnd, Resolving, registry, cellvars
  <2>2. Targets' = Targets
    BY <2>1, Zenon DEF Targets, Reachable
  <2>3. Pipeline'
    BY <2>1, Zenon DEF GInv, Pipeline, Tasks
  <2>4. GType' /\ StackShape' /\ OncePerCell'
    BY <2>1, SMTT(60) DEF GInv, GType, StackShape, OncePerCell, RunsCounted, InitUnfilled, InitSingle
  <2>5. phase' = "running" => Targets \subseteq filled
    <3>1. order = <<>> => 1..Len(order) = {}
      OBVIOUS
    <3> QED BY <2>1, <3>1, Zenon DEF GInv, OrderLeft
  <2> QED BY <2>1, <2>2, <2>3, <2>4, <2>5, Zenon DEF GInv, OrderLeft, EagerMade
<1> QED BY <1>1, <1>2, <1>3, Zenon

\* A frame that returns without filling a cell: Hit, InitFails and Unwind.
LEMMA ReturnStep ==
  ASSUME GInv, NEW t \in Tasks, Resolving(t), stack' = [stack EXCEPT ![t] = Pop(t)],
         UNCHANGED <<deps, eager, roots, phase, order, filled, via, initRuns>>,
         result' \in [Tasks -> {"Ok"} \cup Errors],
         \A u \in Tasks : result'[u] = "Ok" =>
           result[u] = "Ok" /\ (u = t => Top(t).p \in filled)
  PROVE  GInv'
<1>1. /\ stack' \in [Tasks -> Seq(Frames)]
      /\ \A u \in Tasks : \A i \in 1..Len(stack'[u]) :
           i \in 1..Len(stack[u]) /\ stack'[u][i] = stack[u][i]
      /\ Pipeline' /\ StackShape'
  BY PopKeeps, Zenon
<1>2. /\ Len(stack'[t]) = Len(stack[t]) - 1
      /\ \A u \in Tasks \ {t} : stack'[u] = stack[u]
  BY Popped, Zenon DEF GInv
<1>3. stack[t] \in Seq(Frames) /\ stack'[t] \in Seq(Frames) /\ stack[t] # <<>> /\ Boot \in Tasks
  BY <1>1, Zenon DEF GInv, GType, Resolving, Tasks
<1>4. GType'
  BY <1>1, Zenon DEF GInv, GType
<1>5. OncePerCell'
  BY <1>1, SMTT(60) DEF GInv, OncePerCell, RunsCounted, InitUnfilled, InitSingle
<1>6. stack'[Boot] # <<>> => stack[Boot] # <<>> /\ stack'[Boot][1].p = stack[Boot][1].p
  <2>1. CASE t = Boot
    <3>1. stack'[t] # <<>> => 1 \in 1..Len(stack'[t])
      BY <1>3
    <3> QED BY <1>1, <1>3, <2>1, <3>1, Zenon
  <2>2. CASE t # Boot
    BY <1>2, <1>3, <2>2, Zenon
  <2> QED BY <2>1, <2>2, Zenon
<1>7. result'[Boot] = "Ok" =>
        /\ result[Boot] = "Ok"
        /\ stack[Boot] # <<>> => stack'[Boot] # <<>> \/ stack[Boot][1].p \in filled
  <2>1. stack'[t] = <<>> => Len(stack[t]) = 1
    <3>1. PICK n \in Nat : n = Len(stack[t])
      BY <1>3
    <3>2. Len(stack'[t]) = n - 1
      BY <1>2, <3>1, Zenon
    <3>3. stack'[t] = <<>> => Len(stack'[t]) = 0
      BY Zenon
    <3>4. stack'[t] = <<>> => n - 1 = 0
      BY <3>2, <3>3, Zenon
    <3>5. n - 1 = 0 => n = 1
      OBVIOUS
    <3> QED BY <3>1, <3>4, <3>5, Zenon
  <2>2. CASE t = Boot
    BY <1>3, <2>1, <2>2, Zenon DEF Top
  <2>3. CASE t # Boot
    BY <1>2, <1>3, <2>3, Zenon
  <2> QED BY <2>2, <2>3, Zenon
<1>8. OrderLeft' /\ EagerMade'
  BY <1>6, <1>7, OrderKept, Zenon
<1> QED BY <1>1, <1>4, <1>5, <1>8, Zenon DEF GInv

\* The init function of the innermost frame succeeds.  Were it an eager target that the
\* startup makes on the way, as a parameter, it would be needed by the bottom frame and
\* still to come in the order, or be its own parameter; and once the services run no
\* target is left.
LEMMA InitOkStep ==
  ASSUME GInv, NEW t \in Tasks, InitOk(t)
  PROVE  GInv'
<1>1. /\ Resolving(t) /\ result[t] = "Ok" /\ Top(t).at = "init"
      /\ UNCHANGED <<deps, eager, roots, phase, order, result>>
      /\ stack' = [stack EXCEPT ![t] = Pop(t)]
      /\ filled' = filled \cup {Top(t).p}
      /\ via' = [via EXCEPT ![Top(t).p] = Top(t).by]
      /\ initRuns' = [initRuns EXCEPT ![Top(t).p] = @ + 1]
  BY Zenon DEF InitOk, registry
<1>2. /\ stack' \in [Tasks -> Seq(Frames)]
      /\ \A u \in Tasks : \A i \in 1..Len(stack'[u]) :
           i \in 1..Len(stack[u]) /\ stack'[u][i] = stack[u][i]
      /\ \A i \in 1..Len(stack'[t]) : i # Len(stack[t])
      /\ Pipeline' /\ StackShape'
  BY <1>1, PopKeeps, Zenon
<1>3. /\ Len(stack'[t]) = Len(stack[t]) - 1
      /\ \A u \in Tasks \ {t} : stack'[u] = stack[u]
  BY <1>1, Popped, Zenon DEF GInv
<1>4. PICK n \in Nat \ {0} : n = Len(stack[t]) /\ n \in 1..Len(stack[t])
  BY <1>1 DEF GInv, GType, Resolving
<1>5. PICK f \in Frames : f = Top(t) /\ f = stack[t][n]
  BY <1>4 DEF GInv, GType, Top
<1>6. f.p \in Providers /\ f.by \in {"eager", "resolve"} /\ f.at = "init" /\ f.p \notin filled
  BY <1>1, <1>4, <1>5, Zenon DEF GInv, OncePerCell, RunsCounted, InitUnfilled, InitSingle, Frames
<1>7. GType'
  <2>1. filled' \subseteq Providers /\ via' \in [Providers -> {"none", "eager", "resolve"}]
    BY <1>1, <1>5, <1>6, Zenon DEF GInv, GType
  <2>2. initRuns' \in [Providers -> Nat]
    <3>1. initRuns \in [Providers -> Nat] /\ initRuns' = [initRuns EXCEPT ![f.p] = @ + 1]
      BY <1>1, <1>5, Zenon DEF GInv, GType
    <3> QED BY <1>6, <3>1
  <2> QED BY <1>1, <1>2, <2>1, <2>2, Zenon DEF GInv, GType
<1>8. OncePerCell'
  <2>1. \A p \in Providers : initRuns'[p] = IF p \in filled' THEN 1 ELSE 0
    <3>1. /\ initRuns \in [Providers -> Nat] /\ initRuns' = [initRuns EXCEPT ![f.p] = @ + 1]
          /\ filled' = filled \cup {f.p} /\ RunsCounted
      BY <1>1, <1>5, Zenon DEF GInv, GType, OncePerCell
    <3>2. initRuns[f.p] = 0 /\ 0 + 1 = 1
      BY <1>6, <3>1 DEF RunsCounted
    <3> QED BY <1>6, <3>1, <3>2, Zenon DEF RunsCounted
  <2>2. \A u \in Tasks : \A i \in 1..Len(stack'[u]) :
          stack'[u][i].at = "init" => stack'[u][i].p \notin filled'
    <3> SUFFICES ASSUME NEW u \in Tasks, NEW i \in 1..Len(stack'[u]), stack'[u][i].at = "init"
                 PROVE  stack'[u][i].p \notin filled'
      BY Zenon
    <3>1. i \in 1..Len(stack[u]) /\ stack[u][i] = stack'[u][i]
      BY <1>2, Zenon
    <3>2. stack[u][i].at = "init" /\ OncePerCell
      BY <3>1, Zenon DEF GInv
    <3>3. stack[u][i].p \notin filled
      BY <3>1, <3>2, Zenon DEF OncePerCell, InitUnfilled
    <3>4. ~(u = t /\ i = n)
      BY <1>2, <1>4, Zenon
    <3>5. stack[t][n].at = "init" /\ stack[t][n].p = f.p /\ n \in 1..Len(stack[t])
      BY <1>4, <1>5, <1>6, Zenon
    <3>6. stack[u][i].p # f.p
      <4>1. ASSUME stack[u][i].p = f.p PROVE u = t /\ i = n
        <5>1. stack[u][i].p = stack[t][n].p
          BY <3>5, <4>1, Zenon
        <5> QED BY <3>1, <3>2, <3>5, <5>1, OneInit, Zenon
      <4> QED BY <3>4, <4>1, Zenon
    <3>7. filled' = filled \cup {f.p}
      BY <1>1, <1>5, Zenon
    <3> QED BY <3>1, <3>3, <3>6, <3>7, Zenon
  <2>3. ASSUME NEW u \in Tasks, NEW v \in Tasks,
               NEW i \in 1..Len(stack'[u]), NEW j \in 1..Len(stack'[v]),
               stack'[u][i].at = "init", stack'[v][j].at = "init",
               stack'[u][i].p = stack'[v][j].p
        PROVE  u = v /\ i = j
    <3>1. /\ i \in 1..Len(stack[u]) /\ stack'[u][i] = stack[u][i]
          /\ j \in 1..Len(stack[v]) /\ stack'[v][j] = stack[v][j]
      BY <1>2, Zenon
    <3>2. stack[u][i].at = "init" /\ stack[v][j].at = "init" /\ stack[u][i].p = stack[v][j].p
      BY <2>3, <3>1, Zenon
    <3> QED BY <3>1, <3>2, OneInit, Zenon DEF GInv
  <2>4. InitSingle'
    BY <2>3, Zenon DEF InitSingle
  <2> QED BY <2>1, <2>2, <2>4, Zenon DEF OncePerCell, RunsCounted, InitUnfilled
<1>9. Targets' = Targets /\ Boot \in Tasks
  BY <1>1, Zenon DEF Targets, Reachable, Tasks
<1>10. f.p \in Targets => t = Boot /\ n = 1 /\ phase = "eager"
  <2> SUFFICES ASSUME f.p \in Targets PROVE t = Boot /\ n = 1 /\ phase = "eager"
    BY Zenon
  <2>1. phase = "eager" /\ t = Boot
    BY <1>1, <1>6, Zenon DEF GInv, EagerMade, Pipeline, Resolving, Tasks
  <2>2. \/ \E i \in 1..Len(order) : order[i] = f.p
        \/ stack[Boot][1].p = f.p
    BY <1>1, <1>6, <2>1, Zenon DEF GInv, OrderLeft
  <2>3. n > 1 => f.p \in Closure(deps, deps[stack[Boot][1].p])
    BY <1>4, <1>5, <2>1, Zenon DEF GInv, StackShape
  <2>4. stack[Boot][1].p \notin Closure(deps, deps[stack[Boot][1].p])
    <3>1. 1 \in 1..Len(stack[Boot]) /\ stack[Boot] \in Seq(Frames)
      BY <1>4, <2>1 DEF GInv, GType
    <3>2. stack[Boot][1] \in Frames
      BY <3>1
    <3>3. stack[Boot][1].p \in Providers
      BY <3>2, Zenon DEF Frames
    <3> QED BY <2>1, <3>3, Zenon DEF GInv, OrderLeft
  <2>5. n = 1
    <3>1. n > 1 => stack[Boot][1].p # f.p
      BY <2>3, <2>4, Zenon
    <3>2. n > 1 => \A i \in 1..Len(order) : order[i] # f.p
      BY <1>1, <2>1, <2>3, Zenon DEF GInv, OrderLeft, Resolving
    <3> QED BY <2>2, <3>1, <3>2
  <2> QED BY <2>1, <2>5, Zenon
<1>11. EagerMade'
  <2>1. f.p \in Targets => f.by = "eager"
    BY <1>4, <1>5, <1>10 DEF GInv, StackShape
  <2> QED BY <1>1, <1>5, <1>6, <1>9, <2>1 DEF GInv, GType, EagerMade
<1>12. OrderLeft'
  <2> SUFFICES ASSUME phase = "eager" PROVE OrderLeft'
    BY <1>1, Zenon DEF OrderLeft
  <2>1. t = Boot
    BY <1>1, Zenon DEF GInv, Pipeline, Resolving, Tasks
  <2>2. stack'[Boot] # <<>> => stack[Boot] # <<>> /\ stack'[Boot][1].p = stack[Boot][1].p
    <3>1. stack'[Boot] # <<>> => 1 \in 1..Len(stack'[Boot])
      BY <1>2, <2>1, HasFirst, Zenon
    <3> QED BY <1>1, <1>2, <2>1, <3>1, Zenon DEF Resolving
  <2>3. stack'[Boot] = <<>> => stack[Boot][1].p \in filled'
    <3>1. stack'[Boot] = <<>> => n = 1
      BY <1>3, <1>4, <2>1
    <3> QED BY <1>1, <1>5, <2>1, <3>1, Zenon
  <2> QED BY <1>1, <1>9, <2>2, <2>3, ZenonT(60) DEF GInv, OrderLeft
<1> QED BY <1>2, <1>7, <1>8, <1>11, <1>12, Zenon DEF GInv

\* A generation starts to resolve one of its parameters.
LEMMA ResolveStep ==
  ASSUME GInv, NEW t \in Generations, ResolveProvider(t)
  PROVE  GInv'
<1>1. PICK p \in roots :
        /\ phase = "running" /\ ~Resolving(t)
        /\ stack' = [stack EXCEPT ![t] = <<Frame(p, "resolve")>>]
        /\ result' = [result EXCEPT ![t] = "Ok"]
        /\ UNCHANGED <<deps, eager, roots, phase, order, filled, via, initRuns>>
  BY Zenon DEF ResolveProvider, registry, cellvars
<1>2. p \in Providers /\ t \in Tasks /\ t # Boot
  BY GraphAssumption, Zenon DEF GInv, GType, Tasks
<1>3. /\ stack' \in [Tasks -> Seq(Frames)]
      /\ Len(stack'[t]) = 1 /\ stack'[t][1] = Frame(p, "resolve")
      /\ \A u \in Tasks \ {t} : stack'[u] = stack[u]
  BY <1>1, <1>2, Pushed, Zenon DEF GInv
<1>4. GType' /\ \A i \in 1..Len(stack'[t]) : i = 1 /\ stack'[t][i] = Frame(p, "resolve")
  BY <1>1, <1>2, <1>3 DEF GInv, GType
<1>5. Pipeline'
  BY <1>1, <1>2, <1>3, <1>4, Zenon DEF GInv, Pipeline, Tasks
<1>6. StackShape'
  BY <1>1, <1>2, <1>3, <1>4 DEF GInv, GType, StackShape, Frame
<1>7. OncePerCell'
  <2>1. \A i \in 1..Len(stack'[t]) : stack'[t][i].at # "init"
    BY <1>4 DEF Frame
  <2>2. \A u \in Tasks : \A i \in 1..Len(stack'[u]) : stack'[u][i].at = "init" =>
          i \in 1..Len(stack[u]) /\ stack'[u][i] = stack[u][i]
    BY <1>3, <2>1, Zenon
  <2>3. filled' = filled /\ initRuns' = initRuns /\ OncePerCell
    BY <1>1, Zenon DEF GInv
  <2>4. \A p1 \in Providers : initRuns'[p1] = IF p1 \in filled' THEN 1 ELSE 0
    BY <2>3, Zenon DEF OncePerCell, RunsCounted, InitUnfilled, InitSingle
  <2>5. \A u \in Tasks : \A i \in 1..Len(stack'[u]) :
          stack'[u][i].at = "init" => stack'[u][i].p \notin filled'
    BY <2>2, <2>3, Zenon DEF OncePerCell, RunsCounted, InitUnfilled, InitSingle
  <2>6. \A u, v \in Tasks : \A i \in 1..Len(stack'[u]) : \A j \in 1..Len(stack'[v]) :
          stack'[u][i].at = "init" /\ stack'[v][j].at = "init" /\ stack'[u][i].p = stack'[v][j].p =>
            u = v /\ i = j
    <3> TAKE u, v \in Tasks
    <3> TAKE i \in 1..Len(stack'[u])
    <3> TAKE j \in 1..Len(stack'[v])
    <3> HAVE stack'[u][i].at = "init" /\ stack'[v][j].at = "init" /\ stack'[u][i].p = stack'[v][j].p
    <3>1. /\ i \in 1..Len(stack[u]) /\ stack'[u][i] = stack[u][i]
          /\ j \in 1..Len(stack[v]) /\ stack'[v][j] = stack[v][j]
      BY <2>2, Zenon
    <3>2. stack[u][i].at = "init" /\ stack[v][j].at = "init" /\ stack[u][i].p = stack[v][j].p
      BY <3>1, Zenon
    <3>3. i \in 1..Len(stack[u]) /\ j \in 1..Len(stack[v])
      BY <3>1, Zenon
    <3> QED BY <2>3, <3>2, <3>3, Zenon DEF OncePerCell, RunsCounted, InitUnfilled, InitSingle
  <2> QED BY <2>4, <2>5, <2>6, Zenon DEF OncePerCell, RunsCounted, InitUnfilled, InitSingle
<1>8. OrderLeft' /\ EagerMade'
  BY <1>1, Zenon DEF GInv, OrderLeft, EagerMade, Targets, Reachable
<1> QED BY <1>4, <1>5, <1>6, <1>7, <1>8, Zenon DEF GInv

\* The innermost frame takes the permit of an empty cell that no frame holds.
LEMMA AcquireStep ==
  ASSUME GInv, NEW t \in Tasks, AcquireCell(t)
  PROVE  GInv'
<1>1. /\ Resolving(t) /\ Top(t).p \notin filled /\ ~CellsHeld(Top(t).p)
      /\ stack' = SetTop(t, [Top(t) EXCEPT !.at = "init"])
      /\ UNCHANGED <<deps, eager, roots, phase, order, filled, via, initRuns, result>>
  BY Zenon DEF AcquireCell, registry, cellvars
<1>2. PICK n \in Nat \ {0} : n = Len(stack[t]) /\ stack[t] \in Seq(Frames)
  <2>1. stack[t] \in Seq(Frames) /\ Len(stack[t]) > 0
    BY <1>1, Occupied, Zenon DEF GInv
  <2> QED BY <2>1
<1>3. PICK f \in Frames : f = Top(t) /\ f = stack[t][n]
  BY <1>2 DEF Top
<1>4. PICK g \in Frames : g = [f EXCEPT !.at = "init"] /\ g.p = f.p /\ g.by = f.by
                          /\ g.todo = f.todo /\ g.at = "init"
  <2>1. [f EXCEPT !.at = "init"] \in Frames
    BY Zenon DEF Frames
  <2>2. PICK g \in Frames : g = [f EXCEPT !.at = "init"]
    BY <2>1, Zenon
  <2>3. g.p = f.p /\ g.by = f.by /\ g.todo = f.todo /\ g.at = "init"
    BY <2>2, Zenon DEF Frames
  <2> QED BY <2>2, <2>3, Zenon
<1>5. /\ stack' \in [Tasks -> Seq(Frames)]
      /\ \A u \in Tasks : Len(stack'[u]) = Len(stack[u])
      /\ \A u \in Tasks : \A i \in 1..Len(stack[u]) :
           ~(u = t /\ i = n) => stack'[u][i] = stack[u][i]
      /\ stack'[t][n] = g
  <2>1. /\ stack' \in [Tasks -> Seq(Frames)]
        /\ Len(stack'[t]) = Len(stack[t])
        /\ \A i \in 1..Len(stack[t]) : i # Len(stack[t]) => stack'[t][i] = stack[t][i]
        /\ stack'[t][Len(stack[t])] = [Top(t) EXCEPT !.at = "init"]
        /\ \A u \in Tasks \ {t} : stack'[u] = stack[u]
    BY <1>1, Begun, Zenon DEF GInv
  <2> QED BY <1>2, <1>3, <1>4, <2>1, Zenon
<1>6. \A u \in Tasks : \A i \in 1..Len(stack[u]) :
        stack'[u][i].p = stack[u][i].p /\ stack'[u][i].by = stack[u][i].by
        /\ stack'[u][i].todo = stack[u][i].todo
  BY <1>3, <1>4, <1>5, Zenon
<1>7. \A u \in Tasks : stack[u] \in Seq(Frames) /\ stack'[u] \in Seq(Frames)
  BY <1>5, Zenon DEF GInv, GType
<1>8. \A u \in Tasks : stack'[u] = <<>> <=> stack[u] = <<>>
  <2> SUFFICES ASSUME NEW u \in Tasks PROVE stack'[u] = <<>> <=> stack[u] = <<>>
    BY Zenon
  <2> QED BY <1>5, <1>7
<1>9. GType' /\ Pipeline'
  BY <1>1, <1>5, <1>8, Zenon DEF GInv, GType, Pipeline, Tasks
<1>10. StackShape'
  <2> SUFFICES ASSUME NEW u \in Tasks, NEW i \in 1..Len(stack'[u])
               PROVE  /\ i < Len(stack'[u]) => stack'[u][i].at = "init"
                      /\ stack'[u][i].todo \subseteq deps[stack'[u][i].p]
                      /\ stack'[u][i].by = IF u = Boot /\ i = 1 THEN "eager" ELSE "resolve"
                      /\ u = Boot /\ i > 1 => stack'[u][i].p \in Closure(deps, deps[stack'[u][1].p])
    BY <1>1 DEF StackShape
  <2>1. i \in 1..Len(stack[u]) /\ 1 \in 1..Len(stack[u]) /\ Len(stack'[u]) = Len(stack[u])
    BY <1>5, <1>7
  <2>2. i < Len(stack[u]) => stack'[u][i] = stack[u][i]
    BY <1>2, <1>5
  <2>3. /\ i < Len(stack[u]) => stack[u][i].at = "init"
        /\ stack[u][i].todo \subseteq deps[stack[u][i].p]
        /\ stack[u][i].by = IF u = Boot /\ i = 1 THEN "eager" ELSE "resolve"
        /\ u = Boot /\ i > 1 => stack[u][i].p \in Closure(deps, deps[stack[u][1].p])
    BY <2>1, Zenon DEF GInv, StackShape
  <2>4. stack'[u][1].p = stack[u][1].p
    BY <1>6, <2>1, Zenon
  <2> QED BY <1>6, <2>1, <2>2, <2>3, <2>4, Zenon
<1>11. OncePerCell'
  <2>1. ASSUME NEW u \in Tasks, NEW i \in 1..Len(stack'[u]), stack'[u][i].at = "init"
        PROVE  stack'[u][i].p \notin filled'
    <3>1. i \in 1..Len(stack[u]) /\ stack'[u][i].p = stack[u][i].p
      BY <1>5, <1>6, Zenon
    <3>2. CASE u = t /\ i = n
      BY <1>1, <1>3, <3>1, <3>2, Zenon
    <3>3. CASE ~(u = t /\ i = n)
      BY <1>1, <1>5, <2>1, <3>1, <3>3, Zenon DEF GInv, OncePerCell, RunsCounted, InitUnfilled, InitSingle
    <3> QED BY <3>2, <3>3, Zenon
  <2>2. \A u \in Tasks : \A i \in 1..Len(stack[u]) :
          stack[u][i].at = "init" => stack[u][i].p # f.p
    BY <1>1, <1>3, <1>7 DEF CellsHeld
  <2>3. ASSUME NEW u \in Tasks, NEW v \in Tasks,
               NEW i \in 1..Len(stack'[u]), NEW j \in 1..Len(stack'[v]),
               stack'[u][i].at = "init", stack'[v][j].at = "init",
               stack'[u][i].p = stack'[v][j].p
        PROVE  u = v /\ i = j
    <3> i \in 1..Len(stack[u]) /\ j \in 1..Len(stack[v])
      BY <1>5, Zenon
    <3>1. /\ ~(u = t /\ i = n) => stack[u][i].at = "init" /\ stack[u][i].p # f.p
          /\ ~(v = t /\ j = n) => stack[v][j].at = "init" /\ stack[v][j].p # f.p
      <4>1. /\ ~(u = t /\ i = n) => stack[u][i].at = "init"
            /\ ~(v = t /\ j = n) => stack[v][j].at = "init"
        BY <1>5, <2>3, Zenon
      <4> QED BY <2>2, <4>1, Zenon
    <3>2. stack[u][i].p = stack[v][j].p
      BY <1>6, <2>3, Zenon
    <3>3. CASE ~(u = t /\ i = n) /\ ~(v = t /\ j = n)
      BY <3>1, <3>2, <3>3, OneInit, Zenon DEF GInv
    <3>4. CASE (u = t /\ i = n) \/ (v = t /\ j = n)
      BY <1>3, <3>1, <3>2, <3>4, Zenon
    <3> QED BY <3>3, <3>4, Zenon
  <2>4. InitSingle'
    BY <2>3, Zenon DEF InitSingle
  <2>5. InitUnfilled'
    BY <2>1, Zenon DEF InitUnfilled
  <2> QED BY <1>1, <2>4, <2>5, Zenon DEF GInv, OncePerCell, RunsCounted
<1>12. OrderLeft' /\ EagerMade'
  <2>1. Boot \in Tasks /\ (stack[Boot] # <<>> => 1 \in 1..Len(stack[Boot]))
    BY <1>7 DEF Tasks
  <2> QED BY <1>1, <1>6, <1>8, <2>1, OrderKept, Zenon
<1> QED BY <1>9, <1>10, <1>11, <1>12, Zenon DEF GInv

\* The innermost frame calls for a parameter, which is needed by whatever needs that frame.
LEMMA NeedStep ==
  ASSUME GInv, NEW t \in Tasks, NeedParam(t)
  PROVE  GInv'
<1>1. PICK d \in Top(t).todo :
        /\ Resolving(t) /\ Top(t).at = "init"
        /\ stack' = [stack EXCEPT ![t] =
                     Append(Pop(t), [Top(t) EXCEPT !.todo = @ \ {d}]) \o <<Frame(d, "resolve")>>]
        /\ UNCHANGED <<deps, eager, roots, phase, order, filled, via, initRuns, result>>
  BY Zenon DEF NeedParam, registry, cellvars
<1>2. PICK n \in Nat \ {0} : n = Len(stack[t]) /\ stack[t] \in Seq(Frames) /\ n \in 1..Len(stack[t])
  <2>1. stack[t] \in Seq(Frames) /\ Len(stack[t]) > 0
    BY <1>1, Occupied, Zenon DEF GInv
  <2> QED BY <2>1
<1>3. PICK f \in Frames : f = Top(t) /\ f = stack[t][n]
  BY <1>2 DEF Top
<1>4. f.at = "init" /\ f.p \in Providers /\ d \in f.todo /\ f.todo \subseteq deps[f.p] /\ d \in Providers
  BY <1>1, <1>2, <1>3, Zenon DEF GInv, StackShape, Frames
<1>5. PICK g \in Frames : /\ g = [f EXCEPT !.todo = @ \ {d}] /\ g.p = f.p /\ g.by = f.by
                          /\ g.at = f.at /\ g.todo \subseteq f.todo
  <2>1. [f EXCEPT !.todo = @ \ {d}] \in Frames
    BY Zenon DEF Frames
  <2>2. PICK g \in Frames : g = [f EXCEPT !.todo = @ \ {d}]
    BY <2>1, Zenon
  <2>3. g.p = f.p /\ g.by = f.by /\ g.at = f.at /\ g.todo \subseteq f.todo
    BY <2>2, Zenon DEF Frames
  <2> QED BY <2>2, <2>3, Zenon
<1>6. PICK h \in Frames : /\ h = Frame(d, "resolve") /\ h.p = d /\ h.by = "resolve"
                          /\ h.at = "lookup" /\ h.todo = deps[d]
  <2>1. Frame(d, "resolve") \in Frames
    BY <1>4, Zenon DEF GInv, GType, Frame, Frames
  <2> QED BY <2>1, Zenon DEF Frame
<1>7. /\ stack' \in [Tasks -> Seq(Frames)] /\ Len(stack'[t]) = n + 1
      /\ \A i \in 1..n : i # n => stack'[t][i] = stack[t][i]
      /\ stack'[t][n] = g /\ stack'[t][n + 1] = h
      /\ \A u \in Tasks \ {t} : stack'[u] = stack[u]
  <2>1. /\ stack' \in [Tasks -> Seq(Frames)]
        /\ Len(stack'[t]) = Len(stack[t]) + 1
        /\ \A i \in 1..Len(stack[t]) : i # Len(stack[t]) => stack'[t][i] = stack[t][i]
        /\ stack'[t][Len(stack[t])] = [Top(t) EXCEPT !.todo = @ \ {d}]
        /\ stack'[t][Len(stack[t]) + 1] = Frame(d, "resolve")
        /\ \A u \in Tasks \ {t} : stack'[u] = stack[u]
    BY <1>1, Deepened, Zenon DEF GInv
  <2> QED BY <1>2, <1>3, <1>5, <1>6, <2>1, Zenon
<1>8. \A u \in Tasks : \A i \in 1..Len(stack'[u]) :
        \/ u = t /\ i = n + 1 /\ stack'[u][i] = h
        \/ /\ i \in 1..Len(stack[u])
           /\ stack'[u][i].p = stack[u][i].p /\ stack'[u][i].by = stack[u][i].by
           /\ stack'[u][i].at = stack[u][i].at /\ stack'[u][i].todo \subseteq stack[u][i].todo
  <2> SUFFICES ASSUME NEW u \in Tasks, NEW i \in 1..Len(stack'[u])
               PROVE  \/ u = t /\ i = n + 1 /\ stack'[u][i] = h
                      \/ /\ i \in 1..Len(stack[u])
                         /\ stack'[u][i].p = stack[u][i].p /\ stack'[u][i].by = stack[u][i].by
                         /\ stack'[u][i].at = stack[u][i].at
                         /\ stack'[u][i].todo \subseteq stack[u][i].todo
    BY Zenon
  <2>1. CASE u = t
    <3>1. i \in 1..n \/ i = n + 1
      BY <1>7, <2>1, LastOrBefore, Zenon
    <3> QED BY <1>2, <1>3, <1>5, <1>7, <2>1, <3>1, Zenon
  <2>2. CASE u # t
    BY <1>7, <2>2, Zenon
  <2> QED BY <2>1, <2>2, Zenon
<1>9. /\ stack[t] # <<>> /\ stack'[t] # <<>> /\ Boot \in Tasks
      /\ 1 \in 1..n /\ stack'[t][1].p = stack[t][1].p
  <2>1. stack'[t] # <<>>
    BY <1>7
  <2>2. 1 \in 1..n /\ stack'[t][1].p = stack[t][1].p
    <3>1. CASE n = 1
      <4>1. stack'[t][n].p = stack[t][n].p
        BY <1>3, <1>5, <1>7, Zenon
      <4> QED BY <3>1, <4>1
    <3>2. CASE n # 1
      <4>1. 1 \in 1..n /\ 1 # n
        BY <3>2
      <4> QED BY <1>7, <4>1, Zenon
    <3> QED BY <3>1, <3>2, Zenon
  <2> QED BY <1>1, <2>1, <2>2, Zenon DEF Resolving, Tasks
<1>10. GType' /\ Pipeline'
  BY <1>1, <1>7, <1>9, Zenon DEF GInv, GType, Pipeline, Tasks
<1>11. StackShape'
  <2> SUFFICES ASSUME NEW u \in Tasks, NEW i \in 1..Len(stack'[u])
               PROVE  /\ i < Len(stack'[u]) => stack'[u][i].at = "init"
                      /\ stack'[u][i].todo \subseteq deps[stack'[u][i].p]
                      /\ stack'[u][i].by = IF u = Boot /\ i = 1 THEN "eager" ELSE "resolve"
                      /\ u = Boot /\ i > 1 => stack'[u][i].p \in Closure(deps, deps[stack'[u][1].p])
    <3>1. deps' = deps
      BY <1>1, Zenon
    <3> QED BY <3>1, Zenon DEF StackShape
  <2>1. CASE u = t /\ i = n + 1 /\ stack'[u][i] = h
    <3>1. t = Boot => d \in Closure(deps, deps[stack[t][1].p])
      <4> DEFINE C == Closure(deps, deps[stack[t][1].p])
      <4>1. stack[t][1].p \in Providers
        <5>1. stack[t] \in Seq(Frames) /\ 1 \in 1..Len(stack[t])
          BY <1>2, <1>9, Zenon
        <5>2. stack[t][1] \in Frames
          BY <5>1
        <5> QED BY <5>2, Zenon DEF Frames
      <4>2. deps[stack[t][1].p] \subseteq C /\ \A q \in C : deps[q] \subseteq C
        <5>1. deps \in [Providers -> SUBSET Providers] /\ deps[stack[t][1].p] \in SUBSET Providers
          BY <4>1, Zenon DEF GInv, GType
        <5> QED BY <5>1, ClosureFacts, Zenon
      <4>3. t = Boot /\ n > 1 => f.p \in C
        BY <1>2, <1>3, Zenon DEF GInv, StackShape
      <4>4. n = 1 => f.p = stack[t][1].p
        BY <1>3, Zenon
      <4> HIDE DEF C
      <4>5. t = Boot => d \in C
        BY <1>4, <4>2, <4>3, <4>4
      <4> QED BY <4>5, Zenon DEF C
    <3>2. ~(n + 1 < n + 1) /\ n + 1 # 1
      BY <1>9
    <3>3. ~(i < Len(stack'[u])) /\ i # 1 /\ stack'[u] = stack'[t]
      BY <1>7, <2>1, <3>2, Zenon
    <3> QED BY <1>6, <1>9, <2>1, <3>1, <3>3, Zenon
  <2>2. CASE /\ i \in 1..Len(stack[u])
             /\ stack'[u][i].p = stack[u][i].p /\ stack'[u][i].by = stack[u][i].by
             /\ stack'[u][i].at = stack[u][i].at
             /\ stack'[u][i].todo \subseteq stack[u][i].todo
    <3>1. /\ i < Len(stack[u]) => stack[u][i].at = "init"
          /\ stack[u][i].todo \subseteq deps[stack[u][i].p]
          /\ stack[u][i].by = IF u = Boot /\ i = 1 THEN "eager" ELSE "resolve"
          /\ u = Boot /\ i > 1 => stack[u][i].p \in Closure(deps, deps[stack[u][1].p])
      BY <2>2, Zenon DEF GInv, StackShape
    <3>2. stack'[u][1].p = stack[u][1].p
      BY <1>7, <1>9, Zenon
    <3>3. i < Len(stack'[u]) => stack[u][i].at = "init"
      <4>1. CASE u = t /\ i = n
        BY <1>3, <1>4, <4>1, Zenon
      <4>2. CASE ~(u = t /\ i = n)
        <5>1. CASE u = t
          <6>1. i \in 1..n /\ i # n
            BY <1>2, <2>2, <4>2, <5>1, Zenon
          <6>2. i < n
            BY <1>2, <6>1
          <6> QED BY <1>2, <3>1, <5>1, <6>2, Zenon
        <5>2. CASE u # t
          BY <1>7, <3>1, <5>2, Zenon
        <5> QED BY <5>1, <5>2, Zenon
      <4> QED BY <4>1, <4>2, Zenon
    <3> QED BY <2>2, <3>1, <3>2, <3>3, Zenon
  <2> QED BY <1>8, <2>1, <2>2, Zenon
<1>12. OncePerCell'
  <2>1. \A u \in Tasks : \A i \in 1..Len(stack'[u]) : stack'[u][i].at = "init" =>
          i \in 1..Len(stack[u]) /\ stack[u][i].at = "init" /\ stack'[u][i].p = stack[u][i].p
    BY <1>6, <1>8, Zenon
  <2> QED BY <1>1, <2>1, CellsKept, Zenon DEF GInv
<1>13. OrderLeft' /\ EagerMade'
  BY <1>1, <1>7, <1>9, OrderKept, Zenon
<1> QED BY <1>10, <1>11, <1>12, <1>13, Zenon DEF GInv

\* Eager initialisation under the daemon's policy, for every registry and every number of
\* generations.  The order of the eager targets is a linear extension of what needs what,
\* so a target that is reached as a parameter of another one was made before it: by the
\* time an init function runs on the way, its provider is no eager target.
THEOREM EagerIsDaemonMade == GSpec => []EagerUnderDaemonPolicy
<1>1. GInit => GInv
  <2> SUFFICES ASSUME GInit PROVE GInv
    BY Zenon
  <2>1. \A t \in Tasks : stack[t] = <<>> /\ Len(stack[t]) = 0
    BY Zenon DEF GInit
  <2>2. GType
    BY DEF GInit, GType
  <2>3. Pipeline
    BY <2>1, Zenon DEF GInit, Pipeline, Tasks
  <2>4. StackShape /\ OncePerCell
    BY <2>1 DEF GInit, StackShape, OncePerCell, RunsCounted, InitUnfilled, InitSingle
  <2>5. OrderLeft /\ EagerMade
    BY Zenon DEF GInit, OrderLeft, EagerMade
  <2> QED BY <2>2, <2>3, <2>4, <2>5, Zenon DEF GInv
<1>2. GInv /\ [GNext]_gvars => GInv'
  <2> SUFFICES ASSUME GInv, [GNext]_gvars PROVE GInv'
    BY Zenon
  <2>1. CASE Validate \/ EagerNext \/ EagerEnd
    BY <2>1, StartupStep, Zenon
  <2>2. ASSUME NEW t \in Generations, ResolveProvider(t) PROVE GInv'
    BY <2>2, ResolveStep, Zenon
  <2>3. ASSUME NEW t \in Tasks, Hit(t) PROVE GInv'
    <3>1. \A u \in Tasks : result'[u] = "Ok" =>
            result[u] = "Ok" /\ (u = t => Top(t).p \in filled)
      BY <2>3, Zenon DEF Hit
    <3> QED BY <2>3, <3>1, ReturnStep, Zenon DEF Hit, registry, cellvars, GInv, GType
  <2>4. ASSUME NEW t \in Tasks, AcquireCell(t) PROVE GInv'
    BY <2>4, AcquireStep, Zenon
  <2>5. ASSUME NEW t \in Tasks, NeedParam(t) PROVE GInv'
    BY <2>5, NeedStep, Zenon
  <2>6. ASSUME NEW t \in Tasks, InitOk(t) PROVE GInv'
    BY <2>6, InitOkStep, Zenon
  <2>7. ASSUME NEW t \in Tasks, InitFails(t) PROVE GInv'
    <3>1. PICK e \in Errors : result' = [result EXCEPT ![t] = e]
      BY <2>7, Zenon DEF InitFails
    <3>2. /\ result' \in [Tasks -> {"Ok"} \cup Errors]
          /\ \A u \in Tasks : result'[u] = "Ok" => result[u] = "Ok" /\ u # t
      BY <3>1, Zenon DEF GInv, GType, Errors
    <3> QED BY <2>7, <3>2, ReturnStep, Zenon DEF InitFails, registry, cellvars
  <2>8. ASSUME NEW t \in Tasks, Unwind(t) PROVE GInv'
    <3>1. \A u \in Tasks : result'[u] = "Ok" =>
            result[u] = "Ok" /\ (u = t => Top(t).p \in filled)
      BY <2>8, Zenon DEF Unwind
    <3> QED BY <2>8, <3>1, ReturnStep, Zenon DEF Unwind, registry, cellvars, GInv, GType
  <2>9. CASE \/ Shutdown \/ UNCHANGED gvars
             \/ \E t \in Generations : FailureStops(t)
    <3>1. UNCHANGED <<deps, eager, roots, phase, order, filled, via, initRuns, stack, result>>
      BY <2>9, Zenon DEF Shutdown, FailureStops, registry, cellvars, gvars
    <3>2. GType' /\ Pipeline'
      BY <3>1, Zenon DEF GInv, GType, Pipeline
    <3>3. StackShape'
      BY <3>1, Zenon DEF GInv, StackShape
    <3>4. OncePerCell'
      BY <3>1, Zenon DEF GInv, OncePerCell, RunsCounted, InitUnfilled, InitSingle
    <3>5. OrderLeft' /\ EagerMade'
      BY <3>1, Zenon DEF GInv, OrderLeft, EagerMade, Targets, Reachable
    <3> QED BY <3>2, <3>3, <3>4, <3>5, Zenon DEF GInv
  <2> QED BY <2>1, <2>2, <2>3, <2>4, <2>5, <2>6, <2>7, <2>8, <2>9, Zenon DEF GNext, Advance
<1>3. GInv => EagerUnderDaemonPolicy
  <2>1. GInv => \A p \in Providers : initRuns[p] <= 1
    <3>1. ASSUME GInv, NEW p \in Providers PROVE initRuns[p] <= 1
      <4>1. initRuns[p] = IF p \in filled THEN 1 ELSE 0
        BY <3>1, Zenon DEF GInv, OncePerCell, RunsCounted
      <4> QED BY <4>1
    <3> QED BY <3>1, Zenon
  <2> QED BY <2>1, Zenon DEF GInv, EagerMade, EagerUnderDaemonPolicy
<1> QED BY <1>1, <1>2, <1>3, PTL DEF GSpec
=============================================================================
