---------------------------- MODULE RecordProofs -----------------------------
(***************************************************************************)
(* Proofs about what is recorded of a running daemon and what is concluded  *)
(* from the records: the log batch size (LogBatchSize), the scheduling      *)
(* advisor (SchedulingAdvice), the status plane against the runtime facts   *)
(* (RuntimeFacts), the statistics of a sleep probe (ObservationStats) and   *)
(* the diagnostics store (Diagnostics).                                     *)
(***************************************************************************)
EXTENDS RuntimeFacts, SchedulingAdvice, LogBatchSize, ObservationStats, Diagnostics,
        FiniteSetTheorems, TLAPS

-----------------------------------------------------------------------------
(* Counts                                                                  *)

\* What is numbered from a to b counts b - a + 1.
LEMMA BlockCount ==
  ASSUME NEW x, NEW a \in Int, NEW b \in Int, a <= b + 1
  PROVE  IsFiniteSet({x} \X (a..b)) /\ Cardinality({x} \X (a..b)) = b - a + 1
<1>1. IsFiniteSet({x}) /\ Cardinality({x}) = 1
  BY FS_Singleton, Zenon
<1>2. IsFiniteSet(a..b) /\ Cardinality(a..b) = b - a + 1
  BY FS_Interval
<1>3. Cardinality({x} \X (a..b)) = Cardinality({x}) * Cardinality(a..b) /\ IsFiniteSet({x} \X (a..b))
  BY <1>1, <1>2, FS_Product, Zenon
<1> QED BY <1>1, <1>2, <1>3

\* Two sets without a common element count together what they count apart.
LEMMA DisjointCount ==
  ASSUME NEW S, NEW T, IsFiniteSet(S), IsFiniteSet(T), S \cap T = {}
  PROVE  IsFiniteSet(S \cup T) /\ Cardinality(S \cup T) = Cardinality(S) + Cardinality(T)
<1>1. Cardinality(S) \in Nat /\ Cardinality(T) \in Nat
  BY FS_CardinalityType, Zenon
<1>2. Cardinality(S \cap T) = 0
  BY FS_EmptySet, Zenon
<1>3. /\ IsFiniteSet(S \cup T)
      /\ Cardinality(S \cup T) = Cardinality(S) + Cardinality(T) - Cardinality(S \cap T)
  BY FS_Union, Zenon
<1> QED BY <1>1, <1>2, <1>3

\* What one level counts, another counts but for o calls; and the same where the second
\* level counts p besides.
Agree(a, b, o) == a \in Nat /\ b \in Nat /\ o \in Nat /\ a = b + o
AgreeBeside(a, p, b, o) == a \in Nat /\ p \in Nat /\ b \in Nat /\ o \in Nat /\ a + p = b + o

\* Two levels agree when a call reaches the first, and when it reaches the second.
LEMMA OneMore ==
  ASSUME NEW a, NEW b, NEW o, Agree(a, b, o)
  PROVE  Agree(a + 1, b, o + 1) /\ (o > 0 => Agree(a, b + 1, o - 1))
BY DEF Agree

\* The same with what the second level counts besides.
LEMMA OneMoreBeside ==
  ASSUME NEW a, NEW p, NEW b, NEW o, AgreeBeside(a, p, b, o)
  PROVE  /\ AgreeBeside(a + 1, p, b, o + 1) /\ AgreeBeside(a, p + 1, b + 1, o)
         /\ o > 0 => AgreeBeside(a, p, b + 1, o - 1)
BY DEF AgreeBeside

\* What bounds a count bounds a larger one.
LEMMA StillBounds ==
  ASSUME NEW a \in Nat, NEW b \in Nat, NEW c \in Nat, a <= b, b <= c
  PROVE  a <= c
OBVIOUS

\* A count and one more.
LEMMA OneLarger ==
  ASSUME NEW n \in Nat
  PROVE  n + 1 \in Nat /\ n <= n + 1
OBVIOUS

\* The newest of the numbers up to n, m of them at most, in order.
Ring(s, n, m) ==
  /\ s \in Seq(Nat) /\ Len(s) <= m /\ Len(s) <= n
  /\ \A i \in 1..Len(s) : s[i] = n - Len(s) + i

\* A ring takes the next number.
LEMMA RingTakes ==
  ASSUME NEW s, NEW n \in Nat, NEW m \in Nat \ {0}, Ring(s, n, m)
  PROVE  Ring(Append(IF Len(s) = m THEN Tail(s) ELSE s, n + 1), n + 1, m)
<1>0. /\ s \in Seq(Nat) /\ Len(s) <= m /\ Len(s) <= n /\ Len(s) \in Nat
      /\ \A i \in 1..Len(s) : s[i] = n - Len(s) + i
  BY DEF Ring
<1>1. CASE Len(s) = m
  <2>1. /\ Tail(s) \in Seq(Nat) /\ Len(Tail(s)) = m - 1
        /\ \A i \in 1..m - 1 : Tail(s)[i] = s[i + 1] /\ i + 1 \in 1..Len(s)
    BY <1>0, <1>1
  <2>2. PICK u \in Seq(Nat) : u = Tail(s)
    BY <2>1, Zenon
  <2>3. PICK t \in Seq(Nat) : t = Append(u, n + 1)
    <3>1. Append(u, n + 1) \in Seq(Nat)
      OBVIOUS
    <3> QED BY <3>1, Zenon
  <2>4. /\ Len(t) = m /\ t[m] = n + 1
        /\ \A i \in 1..m - 1 : t[i] = s[i + 1] /\ i + 1 \in 1..Len(s)
    BY <2>1, <2>2, <2>3
  <2>5. \A i \in 1..m - 1 : t[i] = n - m + (i + 1)
    BY <1>0, <1>1, <2>4
  <2>6. ASSUME NEW i \in 1..Len(t) PROVE t[i] = (n + 1) - Len(t) + i
    <3>1. CASE i = m
      BY <2>4, <3>1
    <3>2. CASE i # m
      <4>1. i \in 1..m - 1
        BY <2>4, <3>2
      <4> QED BY <2>4, <2>5, <4>1
    <3> QED BY <3>1, <3>2, Zenon
  <2>7. Ring(t, n + 1, m)
    BY <1>0, <1>1, <2>4, <2>6 DEF Ring
  <2> QED BY <1>1, <2>2, <2>3, <2>7, Zenon
<1>2. CASE Len(s) # m
  <2>1. PICK t \in Seq(Nat) : t = Append(s, n + 1)
    <3>1. Append(s, n + 1) \in Seq(Nat)
      BY <1>0
    <3> QED BY <3>1, Zenon
  <2>2. /\ Len(t) = Len(s) + 1 /\ t[Len(s) + 1] = n + 1
        /\ \A i \in 1..Len(s) : t[i] = s[i]
    BY <1>0, <2>1
  <2>3. ASSUME NEW i \in 1..Len(t) PROVE t[i] = (n + 1) - Len(t) + i
    <3>1. CASE i = Len(s) + 1
      BY <1>0, <2>2, <3>1
    <3>2. CASE i # Len(s) + 1
      <4>1. i \in 1..Len(s) /\ t[i] = n - Len(s) + i
        BY <1>0, <2>2, <3>2
      <4> QED BY <1>0, <2>2, <4>1
    <3> QED BY <3>1, <3>2, Zenon
  <2>4. Ring(t, n + 1, m)
    BY <1>0, <1>2, <2>2, <2>3 DEF Ring
  <2> QED BY <1>2, <2>1, <2>4, Zenon
<1> QED BY <1>1, <1>2

-----------------------------------------------------------------------------
(* The log batch size: two OnceLocks                                       *)

\* A caller that was told Ok is the one whose size is in force, a caller that passed
\* the checks asks for a size that may be stored, and the queue's capacity comes from
\* the default or from the size in force.
BatchInv ==
  /\ size \in Nat
  /\ setter \in [Setters -> {"idle", "checked", "accepted", "refused"} \X Nat]
  /\ \A s \in Setters : setter[s][1] = "checked" => setter[s][2] # 0
  /\ \A s \in Setters : setter[s][1] = "accepted" => size # 0 /\ size = setter[s][2]
  /\ \A s, t \in Setters : setter[s][1] = "accepted" /\ setter[t][1] = "accepted" => s = t
  /\ capacity \in {0, QueuePerBatch * DefaultBatch, QueuePerBatch * EffectiveBatch}

\* The invariant of set_log_batch_size and get_log_queue holds in every reachable state:
\* OnceLock::set succeeds once, so the second of two racing callers is refused even
\* though both had passed the checks.
THEOREM BatchInvariance == BatchSpec => []BatchInv
<1>1. BatchInit => BatchInv
  BY DEF BatchInit, BatchInv
<1>2. BatchInv /\ [BatchNext]_batchvars => BatchInv'
  <2> SUFFICES ASSUME BatchInv, [BatchNext]_batchvars PROVE BatchInv'
    BY Zenon
  <2>1. CASE GetLogQueue
    BY <2>1, Zenon DEF GetLogQueue, BatchInv, EffectiveBatch
  <2>2. ASSUME NEW s \in Setters, SetCheck(s) PROVE BatchInv'
    BY <2>2, BatchAssumption DEF SetCheck, BatchInv, EffectiveBatch
  <2>3. ASSUME NEW s \in Setters, SetStore(s) PROVE BatchInv'
    BY <2>3, BatchAssumption DEF SetStore, BatchInv, EffectiveBatch
  <2>4. CASE UNCHANGED batchvars
    BY <2>4, Zenon DEF batchvars, BatchInv, EffectiveBatch
  <2> QED BY <2>1, <2>2, <2>3, <2>4, Zenon DEF BatchNext
<1> QED BY <1>1, <1>2, PTL DEF BatchSpec

\* One of the callers that race to set the log batch size is told Ok, its size stays in
\* force, and the queue was built for it or before it was told Ok.
THEOREM OneSizeIsInForce == BatchSpec => []OneBatchSize
<1>1. BatchInv => OneBatchSize
  BY Zenon DEF BatchInv, OneBatchSize, EffectiveBatch
<1> QED BY <1>1, BatchInvariance, PTL

-----------------------------------------------------------------------------
(* The scheduling advisor: what a window leaves out the next one has        *)

Aggregates == [Entities -> [Fields -> Int]]

\* Once there is a baseline, the windows so far add up to the difference between the
\* last snapshot and the first; before that nothing has been added.
AInv ==
  /\ agg \in Aggregates /\ sum \in Aggregates
  /\ IF previous = NoSnapshot
     THEN sum = [e \in Entities |-> Zero]
     ELSE /\ previous \in Aggregates /\ base \in Aggregates
          /\ \A e \in Entities : \A f \in Fields \ {"worst"} :
               sum[e][f] = previous[e][f] - base[e][f]
  /\ told = advice

\* A recorded sleep or probe leaves an aggregate of the store well formed.
LEMMA ObservedType ==
  ASSUME NEW a \in [Fields -> Int], NEW d \in Int
  PROVE  Observed(a, d) \in [Fields -> Int]
BY DEF Observed, Fields

\* The advisor's invariant holds in every reachable state: sample() replaces the
\* baseline at every tick, whether or not something is said.
THEOREM AdviceInvariance == ASpec => []AInv
<1>1. AInit => AInv
  BY DEF AInit, AInv, Aggregates, Zero
<1>2. AInv /\ [ANext]_avars => AInv'
  <2> SUFFICES ASSUME AInv, [ANext]_avars PROVE AInv'
    BY Zenon
  <2>1. ASSUME NEW e, NEW d \in Int, agg' = [agg EXCEPT ![e] = Observed(@, d)],
               UNCHANGED <<previous, advice, told, base, sum>>
        PROVE  AInv'
    <3>1. agg' \in Aggregates
      BY <2>1, ObservedType, Zenon DEF AInv, Aggregates
    <3> QED BY <2>1, <3>1, Zenon DEF AInv
  <2>2. CASE Sleep
    <3>1. PICK d \in SleepDrifts : agg' = [agg EXCEPT ![Plain] = Observed(@, d)]
      BY <2>2, Zenon DEF Sleep
    <3>2. d \in Int
      BY AdviceAssumption
    <3>3. UNCHANGED <<previous, advice, told, base, sum>>
      BY <2>2, Zenon DEF Sleep
    <3> QED BY <2>1, <3>1, <3>2, <3>3, Zenon
  <2>3. ASSUME NEW l, Probe(l) PROVE AInv'
    <3>1. PICK d \in ProbeDrifts : agg' = [agg EXCEPT ![l] = Observed(@, d)]
      BY <2>3, Zenon DEF Probe
    <3>2. d \in Int
      BY AdviceAssumption
    <3>3. UNCHANGED <<previous, advice, told, base, sum>>
      BY <2>3, Zenon DEF Probe
    <3> QED BY <2>1, <3>1, <3>2, <3>3, Zenon
  <2>4. ASSUME NEW s, NEW kind, Exit(s, kind) PROVE AInv'
    <3>1. agg' \in Aggregates
      BY <2>4 DEF Exit, Counted, AInv, Aggregates
    <3> QED BY <2>4, <3>1, Zenon DEF Exit, AInv
  <2>5. CASE Tick /\ TickFirst
    <3>1. agg' = agg BY <2>5, Zenon DEF Tick
    <3>2. \A e \in Entities : \A f \in Fields : sum[e][f] = 0
      BY <2>5, Zenon DEF TickFirst, AInv, Zero
    <3>3. \A e \in Entities : \A f \in Fields : agg[e][f] \in Int
      BY Zenon DEF AInv, Aggregates
    <3>4. agg # NoSnapshot
      BY DEF AInv, Aggregates, NoSnapshot, Entities, Lanes
    <3> QED BY <2>5, <3>1, <3>2, <3>3, <3>4 DEF TickFirst, AInv
  <2>6. CASE Tick /\ TickWindow
    <3> DEFINE w == [e \in Entities |-> Delta(previous[e], agg[e])]
    <3>1. agg' = agg /\ previous' = agg /\ base' = base
      BY <2>6, Zenon DEF Tick, TickWindow
    <3>2. previous # NoSnapshot /\ previous \in Aggregates /\ base \in Aggregates
      BY <2>6, Zenon DEF TickWindow, AInv
    <3>3. sum' = [e \in Entities |-> [f \in Fields |-> sum[e][f] + w[e][f]]]
      BY <2>6, Zenon DEF TickWindow
    <3>4. told' = advice'
      BY <2>6, Zenon DEF TickWindow, Fingerprint
    <3>5. \A e \in Entities : \A f \in Fields : w[e][f] \in Int
      BY <3>2 DEF Delta, Aggregates, AInv
    <3>6. \A e \in Entities : \A f \in Fields \ {"worst"} : w[e][f] = agg[e][f] - previous[e][f]
      BY <3>2, Zenon DEF Delta, Aggregates, AInv
    <3> HIDE DEF w
    <3>7. sum' \in Aggregates
      BY <3>3, <3>5 DEF Aggregates, AInv
    <3>8. \A e \in Entities : \A f \in Fields \ {"worst"} : sum'[e][f] = agg[e][f] - base[e][f]
      BY <3>2, <3>3, <3>6 DEF Aggregates, AInv
    <3>9. agg # NoSnapshot
      BY DEF AInv, Aggregates, NoSnapshot, Entities, Lanes
    <3> QED BY <3>1, <3>2, <3>4, <3>7, <3>8, <3>9, Zenon DEF AInv
  <2>7. CASE UNCHANGED avars
    BY <2>7, Zenon DEF avars, AInv
  <2> QED BY <2>2, <2>3, <2>4, <2>5, <2>6, <2>7, Zenon DEF ANext, Tick
<1> QED BY <1>1, <1>2, PTL DEF ASpec

\* No counter change falls between two windows of the sampler or into both, for any
\* number of services' events and ticks, and the logged message is the current one.
THEOREM WindowsAreExact == ASpec => []NothingOverlooked
<1>1. AInv => NothingOverlooked
  BY Zenon DEF AInv, NothingOverlooked
<1> QED BY <1>1, AdviceInvariance, PTL

-----------------------------------------------------------------------------
(* The status plane against the runtime facts                              *)

StatusNames ==
  StartupNames \cup {"Unset", "Healthy", "ShuttingDown", "Terminated"}
Statuses == StatusNames \X Nat
Facts == [gen : Nat, restarts : Nat, error : Nat,
          backoff : BOOLEAN, healthy : BOOLEAN, stopped : BOOLEAN]
Calls == [op : {"none", "done", "handshake"}, at : {"idle", "insert", "record", "store"},
          next : Statuses]
Readers == [at : {"idle", "facts", "shown"}, status : Statuses, floor : Nat, error : Nat]
Launching == {"startFacts", "startPlane"}

FactsType ==
  /\ plane \in Statuses /\ pending \in Statuses
  /\ facts \in Facts
  /\ gens \in 0..MaxServiceGens /\ failed \in Nat
  /\ stopping \in BOOLEAN /\ stale \in BOOLEAN
  /\ call \in [Tasks -> Calls]
  /\ flag \in [Gens -> BOOLEAN]
  /\ owner \in [Tasks -> 0..MaxServiceGens]
  /\ reader \in Readers

\* What the supervisor is about to write, and where the failure it tells of stands: in
\* the facts, or between the plane's insert and the facts'.
ErrorOnRecord ==
  /\ failed <= gens /\ facts.error = failed
  /\ plane[1] = "Recovering" =>
       IF sup = "outFacts" THEN plane = pending ELSE plane[2] = failed
  /\ sup \in Launching =>
       pending[1] \in StartupNames /\ (pending[1] = "Recovering" => pending[2] = failed)
  /\ sup \in {"outPlane", "outFacts"} =>
       pending[1] \in StartupNames /\ (pending[1] = "Recovering" => pending[2] = gens)
  /\ sup = "fatalFacts" => pending = St("Terminated")

BackoffShown ==
  facts.backoff => sup \in {"delay", "starting", "startFacts", "termPlane", "termFacts"}

\* A reader between its two reads, and after them.
ReaderBehind ==
  /\ reader.at = "facts" =>
       /\ reader.floor <= failed
       /\ reader.status[1] = "Recovering" => reader.status[2] >= reader.floor
  /\ reader.at = "shown" => reader.error >= reader.floor

\* Who carries which generation's identity, and that a call belongs to its carrier.
IdentityHeld ==
  /\ sup = "running" => gens > 0
  /\ \A t \in Tasks :
       /\ owner[t] <= gens
       /\ sup \in Launching => owner[t] < gens
       /\ owner[t] = 0 => call[t] = NoCall
       /\ call[t] # NoCall => call[t].at # "idle"
       /\ call[t].next[1] \in {"Unset", "Healthy", "Terminated"}
  /\ sup \notin {"running", "aborted"} => owner["body"] = 0
  /\ \A g \in Gens : flag[g] => g <= gens /\ (sup \in Launching => g < gens)

\* Before the shutdown every lifecycle call is on its way to Healthy, and the plane of
\* a running generation knows nothing but startup and Healthy.
BeforeShutdown ==
  ~stopping =>
    /\ wave = "idle" /\ plane[1] # "ShuttingDown"
    /\ \A t \in Tasks : call[t].at \in {"insert", "record"} => call[t].next = St("Healthy")
    /\ sup = "running" => plane[1] \in StartupNames \cup {"Healthy"}

\* In a running generation the plane is Healthy from the first insert of a lifecycle
\* call on: when the call goes on to the facts, when it goes on to the flag, and when
\* the flag is set.
ReadyOnPlane ==
  /\ sup = "running" /\ plane[1] = "Healthy" => earned
  /\ sup = "running" /\ ~stopping =>
       /\ flag[gens] => plane[1] = "Healthy"
       /\ \A t \in Tasks :
            owner[t] = gens /\ call[t].at \in {"record", "store"} => plane[1] = "Healthy"

\* healthy_since against the plane at each of the supervisor's places, as long as no
\* call of an earlier generation's helper has written.
HealthyFollows ==
  ~stopping /\ ~stale =>
    /\ sup = "running" =>
         /\ facts.healthy => plane[1] = "Healthy"
         /\ plane[1] = "Healthy" =>
              facts.healthy \/ \E t \in Tasks : owner[t] = gens /\ call[t].at = "record"
    /\ sup \in {"restart", "delay", "starting", "termFacts", "exited"} \cup Launching =>
         ~facts.healthy /\ plane[1] # "Healthy"
    /\ sup = "outFacts" => plane[1] # "Healthy"
    /\ sup = "termPlane" => ~facts.healthy

FactsInv ==
  /\ FactsType /\ ErrorOnRecord /\ BackoffShown /\ ReaderBehind
  /\ IdentityHeld /\ BeforeShutdown /\ ReadyOnPlane /\ HealthyFollows

\* What record_status_facts leaves in the facts.
LEMMA StatusFactsFields ==
  ASSUME NEW f \in Facts, NEW st \in Statuses
  PROVE  LET g == StatusFacts(f, st)
         IN  /\ g \in Facts
             /\ g.healthy = (st[1] = "Healthy")
             /\ g.error = IF st[1] = "Recovering" THEN st[2] ELSE f.error
             /\ g.backoff => f.backoff
             /\ g.backoff => st[1] \notin {"Healthy", "Terminated"}
<1> DEFINE err == IF st[1] = "Recovering" THEN st[2] ELSE f.error
           ok == st[1] = "Healthy"
           end == f.stopped \/ st[1] \in {"Recovering", "Terminated", "ShuttingDown"}
           wait == f.backoff /\ st[1] \notin {"Healthy", "Terminated", "Initializing", "Restoring"}
<1>1. err \in Nat
  BY Zenon DEF Facts, Statuses
<1>2. ok \in BOOLEAN /\ end \in BOOLEAN /\ wait \in BOOLEAN
  BY Zenon
<1>3. StatusFacts(f, st) = [f EXCEPT !.healthy = ok, !.error = err, !.stopped = end, !.backoff = wait]
  BY Zenon DEF StatusFacts
<1>4. (wait => f.backoff) /\ (wait => st[1] \notin {"Healthy", "Terminated"})
  BY Zenon
<1> HIDE DEF err, ok, end, wait
<1>5. PICK e \in Nat, h \in BOOLEAN, s \in BOOLEAN, b \in BOOLEAN :
        e = err /\ h = ok /\ s = end /\ b = wait
  BY <1>1, <1>2, Zenon
<1>6. PICK g : g = [f EXCEPT !.healthy = h, !.error = e, !.stopped = s, !.backoff = b]
  BY Zenon
<1>7. g \in Facts /\ g.healthy = h /\ g.error = e /\ g.backoff = b
  BY <1>6, Zenon DEF Facts
<1>8. g = StatusFacts(f, st)
  BY <1>3, <1>5, <1>6, Zenon
<1> QED BY <1>4, <1>5, <1>7, <1>8 DEF err, ok

\* What record_service_started leaves in the facts.
LEMMA StartedFactsFields ==
  ASSUME NEW f \in Facts, NEW st \in Statuses, NEW n \in Nat
  PROVE  LET g == StartedFacts(f, n, st)
         IN  /\ g \in Facts
             /\ g.healthy = (st[1] = "Healthy")
             /\ g.error = IF st[1] = "Recovering" THEN st[2] ELSE f.error
             /\ ~g.backoff
<1> DEFINE h == [f EXCEPT !.gen = n, !.backoff = FALSE, !.healthy = FALSE]
<1>1. h \in Facts /\ h.error = f.error /\ ~h.backoff
  BY Zenon DEF Facts
<1>2. StartedFacts(f, n, st) = StatusFacts(h, st)
  BY Zenon DEF StartedFacts
<1> HIDE DEF h
<1> QED BY <1>1, <1>2, StatusFactsFields

\* What record_service_restart leaves in the facts.
LEMMA RestartFactsFields ==
  ASSUME NEW f \in Facts, NEW delayed \in BOOLEAN
  PROVE  LET g == RestartFacts(f, delayed)
         IN  g \in Facts /\ g.healthy = f.healthy /\ g.error = f.error /\ g.backoff = delayed
<1>1. PICK n \in Nat : n = f.restarts + 1
  BY DEF Facts
<1>2. RestartFacts(f, delayed) = [f EXCEPT !.restarts = n, !.backoff = delayed]
  BY <1>1, Zenon DEF RestartFacts
<1> QED BY <1>2, Zenon DEF Facts

\* Every write of the supervisor, the wave, a lifecycle call or the reader preserves
\* the invariant.
LEMMA FactsStep == FactsInv /\ [RNext]_rvars => FactsInv'
<1> SUFFICES ASSUME FactsInv, [RNext]_rvars PROVE FactsInv'
  BY Zenon
<1> USE FactsAssumption
<1>1. CASE Starting
  BY <1>1, SMTT(60) DEF Starting, StartStatus, taskvars, ghosts, FactsInv, FactsType, ErrorOnRecord,
    BackoffShown, ReaderBehind, IdentityHeld, BeforeShutdown, ReadyOnPlane, HealthyFollows,
    Statuses, StatusNames, StartupNames, St, NoCall, Gens, Launching
<1>2. CASE StartFacts
  <2>1. facts' = StartedFacts(facts, gens, pending)
    BY <1>2, Zenon DEF StartFacts
  <2>2. pending \in Statuses
    BY Zenon DEF FactsInv, FactsType, Statuses, Calls
  <2>3. /\ facts' \in Facts
        /\ facts'.healthy = (pending[1] = "Healthy")
        /\ facts'.error = IF pending[1] = "Recovering" THEN pending[2] ELSE facts.error
        /\ ~facts'.backoff
    <3>1. gens \in Nat /\ facts \in Facts
      BY DEF FactsInv, FactsType
    <3> QED BY <2>1, <2>2, <3>1, StartedFactsFields, Zenon
  <2>4. FactsType'
    BY <1>2, <2>2, <2>3, Zenon DEF StartFacts, taskvars, ghosts, FactsInv, FactsType
  <2>5. ErrorOnRecord'
    BY <1>2, <2>2, <2>3, Zenon DEF StartFacts, ghosts, FactsInv, ErrorOnRecord, Launching
  <2>6. BackoffShown'
    BY <1>2, <2>2, <2>3, Zenon DEF BackoffShown
  <2>7. ReaderBehind'
    BY <1>2, <2>2, <2>3, Zenon DEF StartFacts, ghosts, FactsInv, ReaderBehind
  <2>8. IdentityHeld'
    BY <1>2, <2>2, <2>3, Zenon DEF StartFacts, taskvars, FactsInv, IdentityHeld, Launching
  <2>9. BeforeShutdown'
    BY <1>2, <2>2, <2>3, Zenon DEF StartFacts, taskvars, FactsInv, BeforeShutdown
  <2>10. ReadyOnPlane'
    BY <1>2, <2>2, <2>3, Zenon DEF StartFacts, ReadyOnPlane
  <2>11. HealthyFollows'
    BY <1>2, <2>2, <2>3, Zenon DEF StartFacts, ghosts, FactsInv, FactsType, ErrorOnRecord,
      HealthyFollows, StartupNames, Launching
  <2> QED BY <2>4, <2>5, <2>6, <2>7, <2>8, <2>9, <2>10, <2>11, Zenon DEF FactsInv
<1>3. CASE StartPlane
  <2>1. /\ sup = "startPlane" /\ sup' = "running" /\ plane' = pending
        /\ owner' = [owner EXCEPT !["body"] = gens]
        /\ UNCHANGED <<facts, pending, gens, stopping, wave, call, flag, stale, failed, reader>>
    BY <1>3, Zenon DEF StartPlane
  <2>2. /\ \A t \in Tasks : owner'[t] = IF t = "body" THEN gens ELSE owner[t]
        /\ gens \in 0..MaxServiceGens /\ sup \in Launching
    BY <2>1, Zenon DEF FactsInv, FactsType, Launching
  <2>3. FactsType' /\ ReaderBehind'
    BY <2>1, <2>2, Zenon DEF FactsInv, FactsType, ReaderBehind
  <2>4. ErrorOnRecord'
    BY <2>1 DEF FactsInv, ErrorOnRecord, Launching
  <2>5. BackoffShown'
    BY <2>1, Zenon DEF FactsInv, BackoffShown
  <2>6. IdentityHeld'
    BY <2>1, <2>2 DEF FactsInv, FactsType, IdentityHeld, Tasks, Launching
  <2>7. pending[1] \in StartupNames /\ "Healthy" \notin StartupNames /\ "ShuttingDown" \notin StartupNames
    BY <2>2 DEF FactsInv, ErrorOnRecord, StartupNames
  <2>8. BeforeShutdown'
    BY <2>1, <2>7, Zenon DEF FactsInv, BeforeShutdown
  <2>9. ReadyOnPlane'
    BY <2>1, <2>2, <2>7 DEF FactsInv, FactsType, IdentityHeld, ReadyOnPlane, Launching, Gens, NoCall, Tasks
  <2>10. HealthyFollows'
    BY <2>1, <2>2, <2>7 DEF FactsInv, HealthyFollows, Launching
  <2> QED BY <2>3, <2>4, <2>5, <2>6, <2>8, <2>9, <2>10, Zenon DEF FactsInv
<1>4. CASE BodyEnds
  BY <1>4, SMTT(60) DEF BodyEnds, supvars, taskvars, ghosts, FactsInv, FactsType, ErrorOnRecord,
    BackoffShown, ReaderBehind, IdentityHeld, BeforeShutdown, ReadyOnPlane, HealthyFollows,
    Statuses, StatusNames, StartupNames, St, Unset, NoCall, Tasks, Gens, Launching, Calls,
    Readers
<1>5. CASE OutcomeWrites
  <2>1. sup = "outFacts" => facts' = StatusFacts(facts, pending)
    BY <1>5, Zenon DEF OutcomeWrites
  <2>2. pending \in Statuses
    BY Zenon DEF FactsInv, FactsType, Statuses, Calls
  <2>3. sup = "outFacts" => /\ facts' \in Facts
                            /\ facts'.healthy = (pending[1] = "Healthy")
                            /\ facts'.error = IF pending[1] = "Recovering" THEN pending[2] ELSE facts.error
                            /\ (facts'.backoff => facts.backoff /\ pending[1] \notin {"Healthy", "Terminated"})
    BY <2>1, <2>2, StatusFactsFields DEF FactsInv, FactsType
  <2>4. FactsType'
    BY <1>5, <2>2, <2>3 DEF OutcomeWrites, taskvars, FactsInv, FactsType, ErrorOnRecord
  <2>5. ErrorOnRecord'
    BY <1>5, <2>2, <2>3 DEF OutcomeWrites, FactsInv, FactsType, ErrorOnRecord, Launching
  <2>6. BackoffShown'
    BY <1>5, <2>2, <2>3, Zenon DEF OutcomeWrites, FactsInv, BackoffShown
  <2>7. ReaderBehind'
    BY <1>5, <2>2, <2>3 DEF OutcomeWrites, FactsInv, FactsType, ErrorOnRecord, ReaderBehind,
      Readers
  <2>8. IdentityHeld'
    BY <1>5, <2>2, <2>3, Zenon DEF OutcomeWrites, taskvars, FactsInv, IdentityHeld, Launching
  <2>9. BeforeShutdown'
    BY <1>5, <2>2, <2>3, Zenon DEF OutcomeWrites, taskvars, FactsInv, ErrorOnRecord, BeforeShutdown,
      StartupNames
  <2>10. ReadyOnPlane'
    BY <1>5, <2>2, <2>3, Zenon DEF OutcomeWrites, ReadyOnPlane
  <2>11. HealthyFollows'
    BY <1>5, <2>2, <2>3, Zenon DEF OutcomeWrites, FactsInv, FactsType, ErrorOnRecord, HealthyFollows,
      StartupNames, Launching
  <2> QED BY <2>4, <2>5, <2>6, <2>7, <2>8, <2>9, <2>10, <2>11, Zenon DEF FactsInv
<1>6. CASE FatalFacts
  <2>1. facts' = StatusFacts(facts, pending)
    BY <1>6, Zenon DEF FatalFacts
  <2>2. pending \in Statuses
    BY Zenon DEF FactsInv, FactsType, Statuses, Calls
  <2>3. /\ facts' \in Facts
        /\ facts'.healthy = (pending[1] = "Healthy")
        /\ facts'.error = IF pending[1] = "Recovering" THEN pending[2] ELSE facts.error
        /\ (facts'.backoff => facts.backoff /\ pending[1] \notin {"Healthy", "Terminated"})
    BY <2>1, <2>2, StatusFactsFields DEF FactsInv, FactsType
  <2>4. FactsType'
    BY <1>6, <2>2, <2>3, Zenon DEF FatalFacts, taskvars, ghosts, FactsInv, FactsType
  <2>5. ErrorOnRecord'
    BY <1>6, <2>2, <2>3 DEF FatalFacts, ghosts, FactsInv, ErrorOnRecord, St, Launching
  <2>6. BackoffShown'
    BY <1>6, <2>2, <2>3, Zenon DEF FatalFacts, BackoffShown
  <2>7. ReaderBehind'
    BY <1>6, <2>2, <2>3, Zenon DEF FatalFacts, ghosts, FactsInv, ReaderBehind
  <2>8. IdentityHeld'
    BY <1>6, <2>2, <2>3, Zenon DEF FatalFacts, taskvars, FactsInv, IdentityHeld, Launching
  <2>9. BeforeShutdown'
    BY <1>6, <2>2, <2>3, Zenon DEF FatalFacts, taskvars, FactsInv, BeforeShutdown
  <2>10. ReadyOnPlane'
    BY <1>6, <2>2, <2>3, Zenon DEF FatalFacts, ReadyOnPlane
  <2>11. HealthyFollows'
    BY <1>6, <2>2, <2>3 DEF FatalFacts, FactsInv, FactsType, ErrorOnRecord, HealthyFollows,
      St, Launching
  <2> QED BY <2>4, <2>5, <2>6, <2>7, <2>8, <2>9, <2>10, <2>11, Zenon DEF FactsInv
<1>7. CASE RestartRecorded
  BY <1>7, RestartFactsFields, ZenonT(60) DEF RestartRecorded, supvars, taskvars, ghosts, FactsInv,
    FactsType, ErrorOnRecord, BackoffShown, ReaderBehind, IdentityHeld, BeforeShutdown,
    ReadyOnPlane, HealthyFollows, Statuses, StatusNames, StartupNames, St, Unset, NoCall,
    Tasks, Gens, Launching, Calls, Readers
<1>8. CASE DelayEnds
  BY <1>8, Zenon DEF DelayEnds, taskvars, ghosts, FactsInv, FactsType, ErrorOnRecord, BackoffShown,
    ReaderBehind, IdentityHeld, BeforeShutdown, ReadyOnPlane, HealthyFollows, Launching
<1>9. CASE TerminatePlane
  BY <1>9, Zenon DEF TerminatePlane, taskvars, ghosts, FactsInv, FactsType, ErrorOnRecord,
    BackoffShown, ReaderBehind, IdentityHeld, BeforeShutdown, ReadyOnPlane, HealthyFollows,
    Statuses, StatusNames, St, Launching
<1>10. CASE TerminateFacts
  <2>1. facts' = StatusFacts(facts, St("Terminated"))
    BY <1>10, Zenon DEF TerminateFacts
  <2>2. St("Terminated") \in Statuses
    BY Zenon DEF Statuses, StatusNames, St
  <2>3. /\ facts' \in Facts
        /\ facts'.healthy = (St("Terminated")[1] = "Healthy")
        /\ facts'.error = IF St("Terminated")[1] = "Recovering" THEN St("Terminated")[2] ELSE facts.error
        /\ (facts'.backoff => facts.backoff /\ St("Terminated")[1] \notin {"Healthy", "Terminated"})
    BY <2>1, <2>2, StatusFactsFields, SMTT(60) DEF FactsInv, FactsType
  <2>4. FactsType'
    BY <1>10, <2>2, <2>3, Zenon DEF TerminateFacts, taskvars, ghosts, FactsInv, FactsType
  <2>5. ErrorOnRecord'
    BY <1>10, <2>2, <2>3, Zenon DEF TerminateFacts, ghosts, FactsInv, ErrorOnRecord, St, Launching
  <2>6. BackoffShown'
    BY <1>10, <2>2, <2>3, Zenon DEF BackoffShown, St
  <2>7. ReaderBehind'
    BY <1>10, <2>2, <2>3, Zenon DEF TerminateFacts, ghosts, FactsInv, ReaderBehind
  <2>8. IdentityHeld'
    BY <1>10, <2>2, <2>3, Zenon DEF TerminateFacts, taskvars, FactsInv, IdentityHeld, Launching
  <2>9. BeforeShutdown'
    BY <1>10, <2>2, <2>3, Zenon DEF TerminateFacts, taskvars, FactsInv, BeforeShutdown
  <2>10. ReadyOnPlane'
    BY <1>10, <2>2, <2>3, Zenon DEF TerminateFacts, ReadyOnPlane
  <2>11. HealthyFollows'
    BY <1>10, <2>2, <2>3, Zenon DEF TerminateFacts, ghosts, FactsInv, FactsType, HealthyFollows, St
  <2> QED BY <2>4, <2>5, <2>6, <2>7, <2>8, <2>9, <2>10, <2>11, Zenon DEF FactsInv
<1>11. CASE WaveCancels
  BY <1>11 DEF WaveCancels, supvars, taskvars, ghosts, FactsInv, FactsType, ErrorOnRecord,
    BackoffShown, ReaderBehind, IdentityHeld, BeforeShutdown, ReadyOnPlane, HealthyFollows
<1>12. CASE WavePlane
  BY <1>12 DEF WavePlane, supvars, taskvars, ghosts, FactsInv, FactsType, ErrorOnRecord,
    BackoffShown, ReaderBehind, IdentityHeld, BeforeShutdown, ReadyOnPlane, HealthyFollows,
    Statuses, StatusNames, St
<1>13. CASE WaveFacts
  <2>1. facts' = StatusFacts(facts, St("ShuttingDown"))
    BY <1>13, Zenon DEF WaveFacts
  <2>2. St("ShuttingDown") \in Statuses
    BY Zenon DEF Statuses, StatusNames, St
  <2>3. /\ facts' \in Facts
        /\ facts'.healthy = (St("ShuttingDown")[1] = "Healthy")
        /\ facts'.error = IF St("ShuttingDown")[1] = "Recovering" THEN St("ShuttingDown")[2] ELSE facts.error
        /\ (facts'.backoff => facts.backoff /\ St("ShuttingDown")[1] \notin {"Healthy", "Terminated"})
    BY <2>1, <2>2, StatusFactsFields, SMTT(60) DEF FactsInv, FactsType
  <2>4. FactsType'
    BY <1>13, <2>2, <2>3, Zenon DEF WaveFacts, supvars, taskvars, ghosts, FactsInv, FactsType
  <2>5. ErrorOnRecord'
    BY <1>13, <2>2, <2>3, Zenon DEF WaveFacts, supvars, ghosts, FactsInv, ErrorOnRecord, St
  <2>6. BackoffShown'
    BY <1>13, <2>2, <2>3, Zenon DEF WaveFacts, supvars, FactsInv, BackoffShown
  <2>7. ReaderBehind'
    BY <1>13, <2>2, <2>3, Zenon DEF WaveFacts, ghosts, FactsInv, ReaderBehind
  <2>8. IdentityHeld'
    BY <1>13, <2>2, <2>3, Zenon DEF WaveFacts, supvars, taskvars, FactsInv, IdentityHeld
  <2>9. BeforeShutdown'
    BY <1>13, <2>2, <2>3, Zenon DEF WaveFacts, FactsInv, BeforeShutdown
  <2>10. ReadyOnPlane'
    BY <1>13, <2>2, <2>3, Zenon DEF WaveFacts, supvars, ghosts, FactsInv, BeforeShutdown,
      ReadyOnPlane
  <2>11. HealthyFollows'
    BY <1>13, <2>2, <2>3, Zenon DEF WaveFacts, FactsInv, BeforeShutdown, HealthyFollows
  <2> QED BY <2>4, <2>5, <2>6, <2>7, <2>8, <2>9, <2>10, <2>11, Zenon DEF FactsInv
<1>14. CASE WaveJoins
  BY <1>14, Zenon DEF WaveJoins, supvars, taskvars, ghosts, FactsInv, FactsType, ErrorOnRecord,
    BackoffShown, ReaderBehind, IdentityHeld, BeforeShutdown, ReadyOnPlane, HealthyFollows,
    Statuses, StatusNames, StartupNames, St, Unset, NoCall, Tasks, Gens, Launching, Calls,
    Readers
<1>15. CASE WaveTerminates
  BY <1>15 DEF WaveTerminates, supvars, taskvars, ghosts, FactsInv, FactsType, ErrorOnRecord,
    BackoffShown, ReaderBehind, IdentityHeld, BeforeShutdown, ReadyOnPlane, HealthyFollows,
    Statuses, StatusNames, St
<1>16. CASE BodyDropped
  BY <1>16 DEF BodyDropped, supvars, ghosts, FactsInv, FactsType, ErrorOnRecord, BackoffShown,
    ReaderBehind, IdentityHeld, BeforeShutdown, ReadyOnPlane, HealthyFollows, Tasks
<1>17. CASE SpawnHelper
  BY <1>17 DEF SpawnHelper, supvars, ghosts, FactsInv, FactsType, ErrorOnRecord, BackoffShown,
    ReaderBehind, IdentityHeld, BeforeShutdown, ReadyOnPlane, HealthyFollows, Tasks
<1>18. CASE HelperEnds
  <2>1. /\ owner' = [owner EXCEPT !["helper"] = 0] /\ call["helper"] = NoCall
        /\ UNCHANGED <<plane, facts, sup, pending, gens, stopping, wave, call, flag, earned,
                       stale, failed, reader>>
    BY <1>18, Zenon DEF HelperEnds, supvars, ghosts
  <2>2. \A t \in Tasks : owner'[t] = IF t = "helper" THEN 0 ELSE owner[t]
    BY <2>1, Zenon DEF FactsInv, FactsType
  <2>3. FactsType' /\ ErrorOnRecord' /\ BackoffShown' /\ ReaderBehind' /\ BeforeShutdown'
    <3>1. 0 \in 0..MaxServiceGens
      BY DEF FactsInv, FactsType
    <3>2. owner' \in [Tasks -> 0..MaxServiceGens]
      BY <2>1, <3>1, Zenon DEF FactsInv, FactsType
    <3>3. FactsType'
      BY <2>1, <3>2, Zenon DEF FactsInv, FactsType
    <3>4. ErrorOnRecord' /\ BackoffShown'
      BY <2>1, Zenon DEF FactsInv, ErrorOnRecord, BackoffShown
    <3>5. ReaderBehind' /\ BeforeShutdown'
      BY <2>1, Zenon DEF FactsInv, ReaderBehind, BeforeShutdown
    <3> QED BY <3>3, <3>4, <3>5, Zenon
  <2>4. IdentityHeld'
    BY <2>1, <2>2 DEF FactsInv, FactsType, IdentityHeld, Tasks
  <2>5. ReadyOnPlane'
    BY <2>1, <2>2 DEF FactsInv, ReadyOnPlane, NoCall
  <2>6. HealthyFollows'
    <3>1. NoCall.at # "record"
      BY DEF NoCall
    <3>2. ASSUME NEW t \in Tasks, owner[t] = gens, call[t].at = "record"
          PROVE  owner'[t] = gens' /\ call'[t].at = "record"
      BY <2>1, <2>2, <3>1, <3>2, Zenon
    <3> QED BY <2>1, <3>2, Zenon DEF FactsInv, HealthyFollows
  <2> QED BY <2>3, <2>4, <2>5, <2>6, Zenon DEF FactsInv
<1>19. ASSUME NEW t \in Tasks, DoneReads(t) PROVE FactsInv'
  <2>1. FactsType'
    BY <1>19, Zenon DEF DoneReads, supvars, ghosts, FactsInv, FactsType, Statuses, StatusNames, St,
      Calls
  <2>2. ErrorOnRecord'
    BY <1>19, Zenon DEF DoneReads, supvars, ghosts, FactsInv, ErrorOnRecord
  <2>3. BackoffShown'
    BY <1>19, Zenon DEF DoneReads, supvars, FactsInv, BackoffShown
  <2>4. ReaderBehind'
    BY <1>19, Zenon DEF DoneReads, ghosts, FactsInv, ReaderBehind
  <2>5. IdentityHeld'
    BY <1>19, Zenon DEF DoneReads, supvars, taskvars, ghosts, FactsInv, FactsType, ErrorOnRecord,
      BackoffShown, ReaderBehind, IdentityHeld, BeforeShutdown, ReadyOnPlane, HealthyFollows,
      Statuses, StatusNames, StartupNames, St, Unset, NoCall, Tasks, Gens, Launching, Calls,
      Readers
  <2>6. BeforeShutdown'
    BY <1>19, Zenon DEF DoneReads, supvars, FactsInv, FactsType, BeforeShutdown, Statuses,
      StatusNames, StartupNames
  <2>7. ReadyOnPlane'
    BY <1>19 DEF DoneReads, supvars, FactsInv, ReadyOnPlane
  <2>8. HealthyFollows'
    BY <1>19, Zenon DEF DoneReads, supvars, ghosts, FactsInv, HealthyFollows
  <2> QED BY <2>1, <2>2, <2>3, <2>4, <2>5, <2>6, <2>7, <2>8, Zenon DEF FactsInv
<1>20. ASSUME NEW t \in Tasks, HandshakeReads(t) PROVE FactsInv'
  <2>1. FactsType'
    BY <1>20 DEF HandshakeReads, supvars, ghosts, FactsInv, FactsType, Statuses, StatusNames,
      St, Calls
  <2>2. ErrorOnRecord'
    BY <1>20, Zenon DEF HandshakeReads, supvars, ghosts, FactsInv, ErrorOnRecord
  <2>3. BackoffShown'
    BY <1>20, Zenon DEF HandshakeReads, supvars, FactsInv, BackoffShown
  <2>4. ReaderBehind'
    BY <1>20, Zenon DEF HandshakeReads, ghosts, FactsInv, ReaderBehind
  <2>5. IdentityHeld'
    BY <1>20, ZenonT(60) DEF HandshakeReads, supvars, taskvars, ghosts, FactsInv, FactsType,
      ErrorOnRecord, BackoffShown, ReaderBehind, IdentityHeld, BeforeShutdown, ReadyOnPlane,
      HealthyFollows, Statuses, StatusNames, StartupNames, St, Unset, NoCall, Tasks, Gens,
      Launching, Calls, Readers
  <2>6. BeforeShutdown'
    BY <1>20 DEF HandshakeReads, supvars, FactsInv, BeforeShutdown
  <2>7. ReadyOnPlane'
    BY <1>20 DEF HandshakeReads, supvars, ghosts, FactsInv, BeforeShutdown, ReadyOnPlane
  <2>8. HealthyFollows'
    BY <1>20 DEF HandshakeReads, supvars, ghosts, FactsInv, HealthyFollows, NoCall
  <2> QED BY <2>1, <2>2, <2>3, <2>4, <2>5, <2>6, <2>7, <2>8, Zenon DEF FactsInv
<1>21. ASSUME NEW t \in Tasks, CallInserts(t) PROVE FactsInv'
  <2> USE <1>21
  <2>1. /\ call' \in [Tasks -> Calls]
        /\ call'[t].at = "record" /\ call'[t].next = call[t].next
        /\ \A u \in Tasks \ {t} : call'[u] = call[u]
    BY Zenon DEF CallInserts, FactsInv, FactsType, Calls
  <2>2. /\ stale' \in BOOLEAN
        /\ ~stale' => ~stale /\ owner[t] = gens /\ sup = "running"
    BY Zenon DEF CallInserts, FactsInv, FactsType
  <2>3. UNCHANGED <<facts, supvars, stopping, wave, flag, owner, calls, failed, reader>>
    BY Zenon DEF CallInserts
  <2>4. plane' = call[t].next /\ earned' = TRUE /\ call[t].at = "insert"
    BY Zenon DEF CallInserts
  <2>5. owner[t] # 0 /\ plane'[1] \in {"Unset", "Healthy", "Terminated"}
    BY <2>4 DEF FactsInv, IdentityHeld, NoCall
  <2>6. ~stopping => plane'[1] = "Healthy"
    BY <2>4 DEF FactsInv, BeforeShutdown, St
  <2> DEFINE Unmoved == <<facts, sup, pending, gens, stopping, wave, flag, owner, failed, reader>>
  <2>7. UNCHANGED Unmoved
    BY <2>3, Zenon DEF supvars
  <2>8. FactsType'
    <3>1. plane' \in Statuses
      BY <2>4, Zenon DEF FactsInv, FactsType, Calls
    <3> QED BY <2>1, <2>2, <2>7, <3>1, Zenon DEF FactsInv, FactsType
  <2>9. ErrorOnRecord' /\ BackoffShown' /\ ReaderBehind'
    BY <2>5, <2>7, Zenon DEF FactsInv, ErrorOnRecord, BackoffShown, ReaderBehind, Launching
  <2>10. IdentityHeld'
    <3>1. call'[t].next[1] \in {"Unset", "Healthy", "Terminated"}
      BY <2>1, Zenon DEF FactsInv, IdentityHeld
    <3>2. owner'[t] # 0 /\ call'[t].at # "idle"
      BY <2>1, <2>5, <2>7, Zenon
    <3> QED BY <2>1, <2>7, <3>1, <3>2, Zenon DEF FactsInv, IdentityHeld, Launching
  <2>11. BeforeShutdown'
    BY <2>1, <2>4, <2>6, <2>7, Zenon DEF FactsInv, BeforeShutdown
  <2>12. ReadyOnPlane'
    BY <2>4, <2>6, <2>7, Zenon DEF FactsInv, ReadyOnPlane
  <2>13. HealthyFollows'
    BY <2>1, <2>2, <2>6, <2>7, Zenon DEF FactsInv, HealthyFollows, Launching
  <2> QED BY <2>8, <2>9, <2>10, <2>11, <2>12, <2>13, Zenon DEF FactsInv
<1>22. ASSUME NEW t \in Tasks, CallRecords(t) PROVE FactsInv'
  <2> USE <1>22
  <2>1. PICK st \in Statuses : st = call[t].next
    BY Zenon DEF FactsInv, FactsType, Calls
  <2>2. facts' = StatusFacts(facts, st) /\ call[t].at = "record"
    BY <2>1, Zenon DEF CallRecords
  <2>3. st[1] \in {"Unset", "Healthy", "Terminated"} /\ owner[t] # 0
    <3>1. NoCall.at # "record"
      BY DEF NoCall
    <3> QED BY <2>1, <2>2, <3>1, Zenon DEF FactsInv, IdentityHeld
  <2>4. /\ facts' \in Facts
        /\ facts'.healthy = (st[1] = "Healthy") /\ facts'.error = facts.error
        /\ facts'.backoff => facts.backoff
    <3>1. facts \in Facts
      BY Zenon DEF FactsInv, FactsType
    <3> QED BY <2>2, <2>3, <3>1, StatusFactsFields, Zenon
  <2>5. /\ call' \in [Tasks -> Calls]
        /\ call'[t] = NoCall \/ (call'[t].at = "store" /\ call'[t].next = st)
        /\ \A u \in Tasks \ {t} : call'[u] = call[u]
    BY <2>1 DEF CallRecords, FactsInv, FactsType, Calls, NoCall, Unset, St, Statuses,
      StatusNames
  <2>6. /\ stale' \in BOOLEAN
        /\ ~stale' => ~stale /\ owner[t] = gens /\ sup = "running"
    BY Zenon DEF CallRecords, FactsInv, FactsType
  <2> DEFINE Unmoved == <<plane, sup, pending, gens, stopping, wave, flag, owner, earned, failed,
                          reader>>
  <2>7. UNCHANGED Unmoved
    BY Zenon DEF CallRecords, supvars
  <2>8. FactsType'
    BY <2>4, <2>5, <2>6, <2>7, Zenon DEF FactsInv, FactsType
  <2>9. ErrorOnRecord' /\ BackoffShown' /\ ReaderBehind'
    BY <2>4, <2>7, Zenon DEF FactsInv, ErrorOnRecord, BackoffShown, ReaderBehind, Launching
  <2>10. IdentityHeld'
    <3>1. NoCall.next[1] = "Unset"
      BY DEF NoCall, Unset, St
    <3>2. call'[t].next[1] \in {"Unset", "Healthy", "Terminated"}
      BY <2>3, <2>5, <3>1, Zenon
    <3>3. call'[t] # NoCall => call'[t].at # "idle"
      BY <2>5, Zenon
    <3>4. owner' = owner /\ owner'[t] # 0
      BY <2>3, <2>7, Zenon
    <3> QED BY <2>5, <2>7, <3>2, <3>3, <3>4, Zenon DEF FactsInv, IdentityHeld, Launching
  <2>11. BeforeShutdown'
    BY <2>5, <2>7 DEF FactsInv, BeforeShutdown, NoCall
  <2>12. ReadyOnPlane'
    BY <2>2, <2>5, <2>7, Zenon DEF FactsInv, ReadyOnPlane, NoCall
  <2>13. HealthyFollows'
    <3>1. ~stopping => st[1] = "Healthy"
      BY <2>1, <2>2 DEF FactsInv, BeforeShutdown, St
    <3>2. ~stopping /\ ~stale' => plane[1] = "Healthy"
      BY <2>2, <2>6, Zenon DEF FactsInv, ReadyOnPlane
    <3> QED BY <2>4, <2>6, <2>7, <3>1, <3>2, Zenon DEF HealthyFollows, Launching
  <2> QED BY <2>8, <2>9, <2>10, <2>11, <2>12, <2>13, Zenon DEF FactsInv
<1>23. ASSUME NEW t \in Tasks, FlagStored(t) PROVE FactsInv'
  <2>1. FactsType'
    BY <1>23, Zenon DEF FlagStored, supvars, ghosts, FactsInv, FactsType, IdentityHeld, Statuses,
      StatusNames, St, Unset, NoCall, Gens, Calls
  <2>2. ErrorOnRecord'
    BY <1>23, Zenon DEF FlagStored, supvars, ghosts, FactsInv, ErrorOnRecord
  <2>3. BackoffShown'
    BY <1>23, Zenon DEF FlagStored, supvars, FactsInv, BackoffShown
  <2>4. ReaderBehind'
    BY <1>23, Zenon DEF FlagStored, ghosts, FactsInv, ReaderBehind
  <2>5. IdentityHeld'
    BY <1>23, ZenonT(60) DEF FlagStored, supvars, taskvars, ghosts, FactsInv, FactsType, ErrorOnRecord,
      BackoffShown, ReaderBehind, IdentityHeld, BeforeShutdown, ReadyOnPlane, HealthyFollows,
      Statuses, StatusNames, StartupNames, St, Unset, NoCall, Tasks, Gens, Launching, Calls,
      Readers
  <2>6. BeforeShutdown'
    <3>1. \A u \in Tasks : call'[u] = IF u = t THEN NoCall ELSE call[u]
      BY <1>23, Zenon DEF FlagStored, FactsInv, FactsType
    <3>2. NoCall.at \notin {"insert", "record"}
      BY DEF NoCall
    <3> QED BY <1>23, <3>1, <3>2, Zenon DEF FlagStored, supvars, FactsInv, BeforeShutdown
  <2>7. ReadyOnPlane'
    BY <1>23 DEF FlagStored, supvars, ghosts, FactsInv, ReadyOnPlane
  <2>8. HealthyFollows'
    BY <1>23 DEF FlagStored, supvars, ghosts, FactsInv, HealthyFollows
  <2> QED BY <2>1, <2>2, <2>3, <2>4, <2>5, <2>6, <2>7, <2>8, Zenon DEF FactsInv
<1>24. CASE ReadStatus
  <2>1. UNCHANGED <<plane, facts, sup, pending, gens, stopping, wave, call, flag, owner, earned,
                   stale, failed>>
    BY <1>24, Zenon DEF ReadStatus, supvars, taskvars, ghosts
  <2>2. FactsType' /\ ReaderBehind'
    <3>1. /\ facts.error = failed /\ failed <= gens
          /\ plane[1] = "Recovering" =>
               IF sup = "outFacts" THEN plane = pending ELSE plane[2] = failed
          /\ sup = "outFacts" => (pending[1] = "Recovering" => pending[2] = gens)
      BY Zenon DEF FactsInv, ErrorOnRecord
    <3>2. failed \in Nat /\ gens \in 0..MaxServiceGens /\ plane \in Statuses
      BY Zenon DEF FactsInv, FactsType
    <3>3. plane[1] = "Recovering" => plane[2] >= facts.error
      <4>1. plane[1] = "Recovering" => plane[2] \in {failed, gens}
        BY <3>1
      <4> QED BY <3>1, <3>2, <4>1
    <3>4. failed <= failed /\ 0 \in Nat
      BY <3>2
    <3>5. reader' = [at |-> "facts", status |-> plane, floor |-> facts.error, error |-> 0]
      BY <1>24, Zenon DEF ReadStatus
    <3>6. /\ reader'.at = "facts" /\ reader'.status = plane /\ reader'.floor = failed
          /\ reader' \in Readers
      BY <3>1, <3>2, <3>4, <3>5, Zenon DEF Readers
    <3>7. ReaderBehind'
      BY <2>1, <3>1, <3>3, <3>4, <3>6, Zenon DEF ReaderBehind
    <3> QED BY <2>1, <3>6, <3>7, Zenon DEF FactsInv, FactsType
  <2>3. ErrorOnRecord' /\ BackoffShown' /\ IdentityHeld' /\ BeforeShutdown'
    BY <2>1, Zenon DEF FactsInv, ErrorOnRecord, BackoffShown, IdentityHeld, BeforeShutdown
  <2>4. ReadyOnPlane' /\ HealthyFollows'
    BY <2>1, Zenon DEF FactsInv, ReadyOnPlane, HealthyFollows
  <2> QED BY <2>2, <2>3, <2>4, Zenon DEF FactsInv
<1>25. CASE ReadFacts
  <2>1. FactsType'
    BY <1>25, Zenon DEF ReadFacts, ListedError, supvars, taskvars, ghosts, FactsInv, FactsType,
      ErrorOnRecord, BackoffShown, ReaderBehind, IdentityHeld, BeforeShutdown, ReadyOnPlane,
      HealthyFollows, Statuses, StatusNames, StartupNames, St, Unset, NoCall, Tasks, Gens,
      Launching, Calls, Readers
  <2>2. ErrorOnRecord'
    BY <1>25, Zenon DEF ReadFacts, supvars, ghosts, FactsInv, ErrorOnRecord
  <2>3. BackoffShown'
    BY <1>25, Zenon DEF ReadFacts, supvars, FactsInv, BackoffShown
  <2>4. ReaderBehind'
    BY <1>25 DEF ReadFacts, ListedError, FactsInv, ErrorOnRecord, ReaderBehind
  <2>5. IdentityHeld'
    BY <1>25, Zenon DEF ReadFacts, supvars, taskvars, FactsInv, IdentityHeld
  <2>6. BeforeShutdown'
    BY <1>25, Zenon DEF ReadFacts, supvars, taskvars, FactsInv, BeforeShutdown
  <2>7. ReadyOnPlane'
    BY <1>25, Zenon DEF ReadFacts, supvars, taskvars, ghosts, FactsInv, ReadyOnPlane
  <2>8. HealthyFollows'
    BY <1>25, Zenon DEF ReadFacts, supvars, taskvars, ghosts, FactsInv, HealthyFollows
  <2> QED BY <2>1, <2>2, <2>3, <2>4, <2>5, <2>6, <2>7, <2>8, Zenon DEF FactsInv
<1>26. CASE UNCHANGED rvars
  <2>1. UNCHANGED <<plane, facts, sup, pending, gens, stopping, wave, call, flag, owner, earned,
                   stale, failed, reader>>
    BY <1>26, Zenon DEF rvars
  <2>2. FactsType' /\ ReaderBehind'
    BY <2>1, Zenon DEF FactsInv, FactsType, ReaderBehind
  <2>3. ErrorOnRecord' /\ BackoffShown' /\ IdentityHeld' /\ BeforeShutdown'
    BY <2>1, Zenon DEF FactsInv, ErrorOnRecord, BackoffShown, IdentityHeld, BeforeShutdown
  <2>4. ReadyOnPlane' /\ HealthyFollows'
    BY <2>1, Zenon DEF FactsInv, ReadyOnPlane, HealthyFollows
  <2> QED BY <2>2, <2>3, <2>4, Zenon DEF FactsInv
<1> QED
  BY <1>1, <1>2, <1>3, <1>4, <1>5, <1>6, <1>7, <1>8, <1>9, <1>10, <1>11, <1>12, <1>13, <1>14,
    <1>15, <1>16, <1>17, <1>18, <1>19, <1>20, <1>21, <1>22, <1>23, <1>24, <1>25, <1>26, Zenon DEF
    RNext

\* The invariant of the status plane and the runtime facts holds in every reachable
\* state, for any number of generations and lifecycle calls.
THEOREM FactsInvariance == RSpec => []FactsInv
<1>1. RInit => FactsInv
  <2> SUFFICES ASSUME RInit PROVE FactsInv
    BY Zenon
  <2>1. plane \in Statuses /\ pending \in Statuses
    BY Zenon DEF RInit, Unset, St, Statuses, StatusNames
  <2>2. facts \in Facts
    BY Zenon DEF RInit, Facts
  <2>3. call \in [Tasks -> Calls] /\ reader \in Readers
    BY <2>1, Zenon DEF RInit, Calls, Readers, NoCall, Unset, St, Statuses, StatusNames
  <2>4. flag \in [Gens -> BOOLEAN] /\ owner \in [Tasks -> 0..MaxServiceGens]
    BY FactsAssumption DEF RInit
  <2>5. FactsType
    <3>1. gens \in 0..MaxServiceGens /\ failed \in Nat
      BY FactsAssumption DEF RInit
    <3>2. stopping \in BOOLEAN /\ stale \in BOOLEAN
      BY Zenon DEF RInit
    <3> QED BY <2>1, <2>2, <2>3, <2>4, <3>1, <3>2, Zenon DEF FactsType
  <2>6. ErrorOnRecord /\ BackoffShown /\ ReaderBehind
    BY DEF RInit, ErrorOnRecord, BackoffShown, ReaderBehind, Launching, Unset, St
  <2>7. IdentityHeld
    BY DEF RInit, IdentityHeld, Launching, NoCall, Unset, St, Tasks
  <2>8. BeforeShutdown /\ ReadyOnPlane /\ HealthyFollows
    BY Zenon DEF RInit, BeforeShutdown, ReadyOnPlane, HealthyFollows, NoCall, Unset, St
  <2> QED BY <2>5, <2>6, <2>7, <2>8, Zenon DEF FactsInv
<1> QED BY <1>1, FactsStep, PTL DEF RSpec

\* The facts tell what the plane and its history tell: healthy_since, the backoff,
\* last_error and what a readiness snapshot lists.
THEOREM FactsAreCurrent == RSpec => []FactsCurrent
<1>1. FactsInv => FactsCurrent
  <2> SUFFICES ASSUME FactsInv PROVE FactsCurrent
    BY Zenon
  <2>1. Settled /\ ~stopping /\ ~stale => (facts.healthy <=> plane[1] = "Healthy")
    <3>1. Settled => \A t \in Tasks : call[t].at # "record"
      BY DEF Settled, NoCall
    <3>2. facts.healthy \in BOOLEAN
      BY Zenon DEF FactsInv, FactsType, Facts
    <3> QED BY <3>1, <3>2, Zenon DEF FactsInv, HealthyFollows, Settled, Launching
  <2> QED BY <2>1, Zenon DEF FactsInv, ErrorOnRecord, BackoffShown, ReaderBehind, FactsCurrent
<1> QED BY <1>1, FactsInvariance, PTL

\* A generation begins unready, is Healthy only by a lifecycle call, and stays Healthy
\* once its handshake flag is set, until the shutdown.
THEOREM ReadinessIsEarned == RSpec => []ReadinessEarned
<1>1. FactsInv => ReadinessEarned
  BY Zenon DEF FactsInv, ReadyOnPlane, ReadinessEarned
<1> QED BY <1>1, FactsInvariance, PTL

-----------------------------------------------------------------------------
(* The counts of the records                                               *)

-----------------------------------------------------------------------------
(* One sleep probe's statistics: several recorders, one set of atomics      *)

\* The labels of a recorder inside record(Completed, ..).
Inside == {"completed", "total", "last", "load", "cas"}

\* The completed sleeps, without those whose recorder is at a label of L.
Past(L) == {x \in All : ~(x[2] = Len(recorded[x[1]]) /\ at[x[1]] \in L)}

StatsType ==
  /\ completed \in Nat /\ total \in Nat /\ last \in Nat /\ most \in Nat
  /\ at \in [Recorders -> Inside \cup {"sleep", "gone"}]
  /\ drift \in [Recorders -> Nat] /\ seen \in [Recorders -> Nat]
  /\ recorded \in [Recorders -> Seq(Nat)]

\* The observation being recorded is the last one of its recorder.
Pending ==
  \A r \in Recorders : at[r] \in Inside =>
    Len(recorded[r]) > 0 /\ drift[r] = recorded[r][Len(recorded[r])]

StatsInv ==
  /\ StatsType /\ Pending
  /\ IsFiniteSet(Past({"completed"})) /\ completed = Cardinality(Past({"completed"}))
  /\ IsFiniteSet(Nanoseconds(Past({"completed", "total"})))
  /\ total = Cardinality(Nanoseconds(Past({"completed", "total"})))
  /\ \A r \in Recorders : at[r] = "cas" => seen[r] <= most
  /\ \A x \in Past(Inside) : DriftOf(x) <= most
  /\ {most, last} \subseteq {DriftOf(x) : x \in All} \cup {0}

\* The completed sleeps, before a step and after it.
LEMMA AllMembers ==
  \A x : x \in All <=> \E r \in Recorders : \E i \in 1..Len(recorded[r]) : x = <<r, i>>
BY DEF All

\* (the same in the next state)
LEMMA AllMembersAfter ==
  \A x : x \in All' <=> \E r \in Recorders : \E i \in 1..Len(recorded'[r]) : x = <<r, i>>
BY DEF All

\* A drift is a number.
LEMMA DriftTyped ==
  ASSUME StatsType
  PROVE  \A y \in All : DriftOf(y) \in Nat
<1> SUFFICES ASSUME NEW y \in All PROVE DriftOf(y) \in Nat
  BY Zenon
<1>1. PICK q \in Recorders : \E i \in 1..Len(recorded[q]) : y = <<q, i>>
  BY AllMembers, Zenon
<1>2. PICK i \in 1..Len(recorded[q]) : y = <<q, i>>
  BY <1>1, Zenon
<1>3. recorded[q] \in Seq(Nat)
  BY Zenon DEF StatsType
<1> QED BY <1>2, <1>3 DEF DriftOf

\* A recorder goes on with its observation: it leaves the labels of L, or does not.
LEMMA PastMoves ==
  ASSUME StatsType, Pending, NEW r \in Recorders, NEW l, To(r, l), recorded' = recorded, NEW L
  PROVE  /\ (at[r] \in L <=> l \in L) => Past(L)' = Past(L)
         /\ at[r] \in L /\ at[r] \in Inside /\ l \notin L =>
              LET x == <<r, Len(recorded[r])>>
              IN  x \in All /\ x \notin Past(L) /\ Past(L)' = Past(L) \cup {x}
<1>1. All' = All
  BY Zenon DEF All
<1>2. at' = [at EXCEPT ![r] = l] /\ \A q \in Recorders : at'[q] = IF q = r THEN l ELSE at[q]
  BY Zenon DEF To, StatsType
<1>3. \A x \in All : x[1] \in Recorders /\ x[2] \in Nat /\ x = <<x[1], x[2]>>
  BY AllMembers DEF StatsType
<1>4. (at[r] \in L <=> l \in L) => Past(L)' = Past(L)
  BY <1>1, <1>2, <1>3, Zenon DEF Past
<1>5. ASSUME at[r] \in L, at[r] \in Inside, l \notin L
      PROVE  LET x == <<r, Len(recorded[r])>>
             IN  x \in All /\ x \notin Past(L) /\ Past(L)' = Past(L) \cup {x}
  <2> DEFINE x == <<r, Len(recorded[r])>>
  <2>1. x \in All
    BY <1>5, AllMembers DEF Pending, StatsType
  <2>2. x \notin Past(L)
    BY <1>5, Zenon DEF Past
  <2>3. ASSUME NEW y \in All
        PROVE  y \in Past(L)' <=> y \in Past(L) \/ y = x
    BY <1>1, <1>2, <1>3, <1>5 DEF Past
  <2>4. Past(L)' \subseteq All /\ Past(L) \subseteq All
    BY <1>1, Zenon DEF Past
  <2> QED BY <2>1, <2>2, <2>3, <2>4, Zenon
<1> QED BY <1>4, <1>5, Zenon

\* A completed sleep whose recorder has left the last label of L is counted, or the
\* sum of its drift added.
LEMMA NanosecondsAdd ==
  ASSUME NEW S, NEW x, x \notin S, DriftOf(x) \in Nat, IsFiniteSet(Nanoseconds(S))
  PROVE  /\ IsFiniteSet(Nanoseconds(S \cup {x}))
         /\ Cardinality(Nanoseconds(S \cup {x})) = Cardinality(Nanoseconds(S)) + DriftOf(x)
<1> DEFINE B == {x} \X (1..DriftOf(x))
<1>1. Nanoseconds(S \cup {x}) = Nanoseconds(S) \cup B
  BY Zenon DEF Nanoseconds
<1>2. Nanoseconds(S) \cap B = {}
  BY DEF Nanoseconds
<1>3. IsFiniteSet(B) /\ Cardinality(B) = DriftOf(x)
  <2>1. DriftOf(x) \in Int /\ 1 \in Int /\ 1 <= DriftOf(x) + 1 /\ DriftOf(x) - 1 + 1 = DriftOf(x)
    OBVIOUS
  <2>2. IsFiniteSet(B) /\ Cardinality(B) = DriftOf(x) - 1 + 1
    BY <2>1, BlockCount, Zenon
  <2> QED BY <2>1, <2>2, Zenon
<1> HIDE DEF B
<1> QED BY <1>1, <1>2, <1>3, DisjointCount

\* Nothing is recorded at first.
LEMMA StatsInit == OInit => StatsInv
<1> SUFFICES ASSUME OInit PROVE StatsInv
  BY Zenon
<1>1. StatsType /\ Pending
  BY DEF OInit, StatsType, Pending, Inside
<1>2. All = {}
  BY DEF OInit, All
<1>3. Past({"completed"}) = {} /\ Past({"completed", "total"}) = {} /\ Past(Inside) = {}
  BY <1>2, Zenon DEF Past
<1>4. Nanoseconds({}) = {}
  BY Zenon DEF Nanoseconds
<1>5. IsFiniteSet({}) /\ Cardinality({}) = 0
  BY FS_EmptySet, Zenon
<1> QED BY <1>1, <1>3, <1>4, <1>5, Zenon DEF OInit, StatsInv

\* A recorder goes from one label to another, and pays the counter that it leaves.
Moves(r, l) ==
  /\ l \in Inside \cup {"sleep", "gone"} /\ To(r, l)
  /\ l \in Inside => at[r] \in Inside
  /\ l = "completed" => at[r] = "completed"
  /\ l \in {"completed", "total"} => at[r] \in {"completed", "total"}
  /\ recorded' = recorded /\ drift' = drift /\ seen' \in [Recorders -> Nat]
  /\ last' \in Nat /\ most' \in Nat
  /\ completed' = completed + (IF at[r] = "completed" /\ l # "completed" THEN 1 ELSE 0)
  /\ total' = total + (IF at[r] \in {"completed", "total"} /\ l \notin {"completed", "total"}
                         THEN drift[r] ELSE 0)
  /\ \A q \in Recorders : at'[q] = "cas" => seen'[q] <= most'
  /\ most <= most' /\ (at[r] \in Inside /\ l \notin Inside => drift[r] <= most')
  /\ {most', last'} \subseteq {DriftOf(x) : x \in All} \cup {0}

\* Which counters owe a recorder something follows from the labels alone.
LEMMA StatsMove ==
  ASSUME StatsInv, NEW r \in Recorders, NEW l, Moves(r, l)
  PROVE  StatsInv'
<1> USE DEF Moves
<1> DEFINE x == <<r, Len(recorded[r])>>
           C == {"completed"}
           T == {"completed", "total"}
<1>1. StatsType' /\ Pending'
  BY DEF StatsInv, StatsType, To, Pending
<1>2. at[r] \in Inside => DriftOf(x) = drift[r] /\ drift[r] \in Nat
  BY Zenon DEF StatsInv, StatsType, Pending, DriftOf
<1>3. All' = All /\ \A y \in All : DriftOf(y)' = DriftOf(y)
  BY Zenon DEF All, DriftOf
<1>4. ASSUME NEW L PROVE Nanoseconds(Past(L))' = UNION {{y} \X (1..DriftOf(y)) : y \in Past(L)'}
  BY Zenon DEF Nanoseconds, DriftOf
<1>5. IsFiniteSet(Past(C)') /\ completed' = Cardinality(Past(C)')
  <2>1. CASE at[r] = "completed" /\ l # "completed"
    <3>1. x \notin Past(C) /\ Past(C)' = Past(C) \cup {x}
      BY <2>1, PastMoves, Zenon DEF StatsInv, Inside
    <3>2. /\ IsFiniteSet(Past(C) \cup {x})
          /\ Cardinality(Past(C) \cup {x}) = Cardinality(Past(C)) + 1
      BY <3>1, FS_AddElement, Zenon DEF StatsInv
    <3>3. completed' = completed + 1
      BY <2>1, Zenon
    <3>4. completed = Cardinality(Past(C))
      BY Zenon DEF StatsInv
    <3> QED BY <3>1, <3>2, <3>3, <3>4, Zenon
  <2>2. CASE ~(at[r] = "completed" /\ l # "completed")
    <3>1. Past(C)' = Past(C)
      BY <2>2, PastMoves, Zenon DEF StatsInv
    <3>2. completed' = completed
      BY <2>2 DEF StatsInv, StatsType
    <3> QED BY <3>1, <3>2, Zenon DEF StatsInv
  <2> QED BY <2>1, <2>2, Zenon
<1>6. IsFiniteSet(Nanoseconds(Past(T))') /\ total' = Cardinality(Nanoseconds(Past(T))')
  <2>1. CASE at[r] \in T /\ l \notin T
    <3>1. x \notin Past(T) /\ Past(T)' = Past(T) \cup {x}
      BY <2>1, PastMoves, Zenon DEF StatsInv, Inside
    <3>2. Nanoseconds(Past(T))' = Nanoseconds(Past(T) \cup {x})
      BY <1>4, <3>1, Zenon DEF Nanoseconds
    <3>3. DriftOf(x) = drift[r] /\ drift[r] \in Nat
      BY <1>2, <2>1, Zenon DEF Inside
    <3>4. /\ IsFiniteSet(Nanoseconds(Past(T) \cup {x}))
          /\ Cardinality(Nanoseconds(Past(T) \cup {x})) = Cardinality(Nanoseconds(Past(T))) + DriftOf(x)
      BY <3>1, <3>3, NanosecondsAdd, Zenon DEF StatsInv
    <3> QED BY <2>1, <3>2, <3>3, <3>4, Zenon DEF StatsInv
  <2>2. CASE ~(at[r] \in T /\ l \notin T)
    <3>1. Past(T)' = Past(T)
      BY <2>2, PastMoves, Zenon DEF StatsInv
    <3>2. Nanoseconds(Past(T))' = Nanoseconds(Past(T))
      BY <1>4, <3>1, Zenon DEF Nanoseconds
    <3> QED BY <2>2, <3>2 DEF StatsInv, StatsType
  <2> QED BY <2>1, <2>2, Zenon
<1>7. ASSUME NEW y \in Past(Inside)' PROVE DriftOf(y)' <= most'
  <2>1. y \in Past(Inside) \/ (y = x /\ at[r] \in Inside /\ l \notin Inside)
    <3>1. CASE at[r] \in Inside <=> l \in Inside
      BY <1>7, <3>1, PastMoves, Zenon DEF StatsInv
    <3>2. CASE at[r] \in Inside /\ l \notin Inside
      <4>1. Past(Inside)' = Past(Inside) \cup {x}
        BY <3>2, PastMoves, Zenon DEF StatsInv
      <4> QED BY <1>7, <3>2, <4>1, Zenon
    <3> QED BY <3>1, <3>2, Zenon
  <2>2. y \in All /\ DriftOf(y)' = DriftOf(y)
    BY <1>3, <1>7, Zenon DEF Past
  <2>3. ASSUME y \in Past(Inside) PROVE DriftOf(y) <= most /\ DriftOf(y) \in Nat
    BY <2>2, <2>3, DriftTyped, Zenon DEF StatsInv
  <2>4. most \in Nat /\ most <= most'
    BY Zenon DEF StatsInv, StatsType
  <2>5. CASE y \in Past(Inside)
    <3>1. most' \in Nat
      BY Zenon DEF StatsType
    <3> QED BY <2>2, <2>3, <2>4, <2>5, <3>1, StillBounds, Zenon
  <2>6. CASE y = x /\ at[r] \in Inside /\ l \notin Inside
    BY <1>2, <2>2, <2>6, Zenon
  <2> QED BY <2>1, <2>5, <2>6, Zenon
<1>8. {DriftOf(y) : y \in All}' = {DriftOf(y) : y \in All}
  BY <1>3, Zenon
<1> QED BY <1>1, <1>3, <1>5, <1>6, <1>7, <1>8, Zenon DEF StatsInv

\* A completed sleep begins to be recorded: no counter owes more or less for it yet.
LEMMA CompletesStep ==
  ASSUME StatsInv, NEW r \in Recorders, SleepCompletes(r)
  PROVE  StatsInv'
<1>1. PICK d \in Nat : /\ drift' = [drift EXCEPT ![r] = d]
                       /\ recorded' = [recorded EXCEPT ![r] = Append(@, d)]
  BY StatsAssumption, Zenon DEF SleepCompletes
<1>2. /\ at[r] = "sleep" /\ at' = [at EXCEPT ![r] = "completed"]
      /\ UNCHANGED <<completed, total, last, most, seen>>
  BY Zenon DEF SleepCompletes, To
<1>3. /\ recorded' \in [Recorders -> Seq(Nat)] /\ Len(recorded'[r]) = Len(recorded[r]) + 1
      /\ recorded'[r][Len(recorded[r]) + 1] = d
      /\ \A i \in 1..Len(recorded[r]) : recorded'[r][i] = recorded[r][i]
      /\ \A q \in Recorders \ {r} : recorded'[q] = recorded[q]
      /\ \A q \in Recorders : Len(recorded[q]) \in Nat
  BY <1>1 DEF StatsInv, StatsType
<1>4. \A q \in Recorders : at'[q] = IF q = r THEN "completed" ELSE at[q]
  BY <1>2, Zenon DEF StatsInv, StatsType
<1>5. StatsType' /\ Pending'
  <2>1. StatsType'
    BY <1>1, <1>2, <1>3, Zenon DEF StatsInv, StatsType, Inside
  <2>2. drift'[r] = d /\ \A q \in Recorders \ {r} : drift'[q] = drift[q]
    BY <1>1, Zenon DEF StatsInv, StatsType
  <2> QED BY <1>3, <1>4, <2>1, <2>2 DEF StatsInv, Pending
<1>6. ASSUME NEW y \in All
      PROVE  y \in All' /\ y[1] \in Recorders /\ y[2] \in 1..Len(recorded[y[1]]) /\ DriftOf(y)' = DriftOf(y)
  <2>0. PICK q \in Recorders : \E i \in 1..Len(recorded[q]) : y = <<q, i>>
    BY AllMembers, Zenon
  <2>1. PICK i \in 1..Len(recorded[q]) : y = <<q, i>>
    BY <2>0, Zenon
  <2>2. i \in 1..Len(recorded'[q]) /\ recorded'[q][i] = recorded[q][i]
    <3>1. CASE q = r
      <4>1. i \in 1..(Len(recorded[r]) + 1)
        BY <1>3, <3>1
      <4> QED BY <1>3, <3>1, <4>1, Zenon
    <3>2. CASE q # r
      BY <1>3, <3>2, Zenon
    <3> QED BY <3>1, <3>2, Zenon
  <2> QED BY <2>1, <2>2, AllMembersAfter, Zenon DEF DriftOf
<1>7. ASSUME NEW y \in All', y \notin All
      PROVE  y = <<r, Len(recorded'[r])>>
  <2>0. PICK q \in Recorders : \E i \in 1..Len(recorded'[q]) : y = <<q, i>>
    BY AllMembersAfter, Zenon
  <2>1. PICK i \in 1..Len(recorded'[q]) : y = <<q, i>>
    BY <2>0, Zenon
  <2>2. i \notin 1..Len(recorded[q])
    BY <1>7, <2>1, AllMembers, Zenon
  <2>3. q = r
    BY <1>3, <2>2, Zenon
  <2>4. i = Len(recorded[r]) + 1
    BY <1>3, <2>2, <2>3
  <2> QED BY <1>3, <2>1, <2>3, <2>4, Zenon
<1>8. ASSUME NEW L, "completed" \in L, "sleep" \notin L
      PROVE  Past(L)' = Past(L) /\ Past(L) \subseteq All
  <2>1. ASSUME NEW y \in All PROVE y \in Past(L)' <=> y \in Past(L)
    <3>1. y \in All' /\ y[1] \in Recorders /\ y[2] \in 1..Len(recorded[y[1]])
      BY <1>6, Zenon
    <3>2. CASE y[1] = r
      BY <1>2, <1>3, <1>4, <1>8, <3>1, <3>2 DEF Past
    <3>3. CASE y[1] # r
      BY <1>3, <1>4, <3>1, <3>3, Zenon DEF Past
    <3> QED BY <3>2, <3>3, Zenon
  <2>2. ASSUME NEW y \in Past(L)' PROVE y \in All
    <3>1. y \in All' /\ ~(y[2] = Len(recorded'[y[1]]) /\ at'[y[1]] \in L)
      BY Zenon DEF Past
    <3> QED BY <1>4, <1>7, <1>8, <3>1
  <2>3. Past(L) \subseteq All
    BY Zenon DEF Past
  <2> QED BY <2>1, <2>2, <2>3, Zenon
<1>9. Past({"completed"})' = Past({"completed"}) /\ Past(Inside)' = Past(Inside) /\ Past(Inside) \subseteq All
  BY <1>8, Zenon DEF Inside
<1>10. Nanoseconds(Past({"completed", "total"}))' = Nanoseconds(Past({"completed", "total"}))
  <2>1. /\ Past({"completed", "total"})' = Past({"completed", "total"})
        /\ Past({"completed", "total"}) \subseteq All
    BY <1>8, Zenon
  <2> QED BY <1>6, <2>1 DEF Nanoseconds
<1>11. {DriftOf(y) : y \in All} \subseteq {DriftOf(y) : y \in All}'
  BY <1>6, Zenon
<1>12. \A q \in Recorders : at'[q] = "cas" => seen'[q] <= most'
  BY <1>2, <1>4 DEF StatsInv
<1>13. \A y \in Past(Inside)' : DriftOf(y)' <= most'
  BY <1>2, <1>6, <1>9, Zenon DEF StatsInv
<1> QED BY <1>2, <1>5, <1>9, <1>10, <1>11, <1>12, <1>13, Zenon DEF StatsInv

\* Every atomic operation of record keeps what the counters owe, whichever recorders
\* are at which of them.
LEMMA StatsStep ==
  ASSUME StatsInv, [ONext]_ovars
  PROVE  StatsInv'
<1>1. CASE UNCHANGED ovars
  <2>1. All' = All /\ \A x : DriftOf(x)' = DriftOf(x)
    BY <1>1, Zenon DEF ovars, All, DriftOf
  <2>2. \A L : Past(L)' = Past(L)
    BY <1>1, <2>1, Zenon DEF ovars, Past
  <2>3. \A L : Nanoseconds(Past(L))' = Nanoseconds(Past(L))
    BY <2>1, <2>2, Zenon DEF Nanoseconds
  <2>4. StatsType' /\ Pending'
    BY <1>1, Zenon DEF ovars, StatsInv, StatsType, Pending
  <2> QED BY <1>1, <2>1, <2>2, <2>3, <2>4, Zenon DEF ovars, StatsInv
<1>2. ASSUME NEW r \in Recorders, RecordSteps(r) PROVE StatsInv'
  <2>1. StatsType /\ Pending /\ drift[r] \in Nat /\ seen[r] \in Nat /\ most \in Nat
    BY Zenon DEF StatsInv, StatsType
  <2>2. \A q \in Recorders : at[q] = "cas" => seen[q] <= most
    BY Zenon DEF StatsInv
  <2>3. {most, last} \subseteq {DriftOf(x) : x \in All} \cup {0}
    BY Zenon DEF StatsInv
  <2>4. at[r] \in Inside => drift[r] \in {DriftOf(x) : x \in All}
    <3>1. at[r] \in Inside => <<r, Len(recorded[r])>> \in All
      BY <2>1, AllMembers DEF StatsType, Pending
    <3> QED BY <2>1, <3>1 DEF Pending, DriftOf
  <2>5. CASE SleepCompletes(r)
    BY <2>5, CompletesStep, Zenon
  <2>6. CASE SleepInterrupted(r)
    <3>1. Moves(r, "gone")
      BY <2>1, <2>2, <2>3, <2>6 DEF SleepInterrupted, To, StatsType, Inside, Moves
    <3> QED BY <3>1, StatsMove, Zenon
  <2>7. CASE AddCompleted(r)
    <3>1. Moves(r, "total")
      BY <2>1, <2>2, <2>3, <2>7 DEF AddCompleted, To, StatsType, Inside, Moves
    <3> QED BY <3>1, StatsMove, Zenon
  <2>8. CASE AddTotal(r)
    <3>1. Moves(r, "last")
      BY <2>1, <2>2, <2>3, <2>8 DEF AddTotal, To, StatsType, Inside, Moves
    <3> QED BY <3>1, StatsMove, Zenon
  <2>9. CASE StoreLastDrift(r)
    <3>1. Moves(r, "load")
      BY <2>1, <2>2, <2>3, <2>4, <2>9 DEF StoreLastDrift, To, StatsType, Inside, Moves
    <3> QED BY <3>1, StatsMove, Zenon
  <2>10. CASE LoadMost(r)
    <3>1. Moves(r, "cas")
      BY <2>1, <2>2, <2>3, <2>10 DEF LoadMost, To, StatsType, Inside, Moves
    <3> QED BY <3>1, StatsMove, Zenon
  <2>11. CASE CasMost(r)
    <3>1. at[r] = "cas" /\ UNCHANGED <<completed, total, last, drift, recorded>>
      BY <2>11, Zenon DEF CasMost
    <3>2. CASE To(r, "sleep")
      <4>1. Moves(r, "sleep")
        BY <2>1, <2>2, <2>3, <2>4, <2>11, <3>1, <3>2 DEF CasMost, To, StatsType, Inside, Moves
      <4> QED BY <4>1, StatsMove, Zenon
    <3>3. CASE seen' = [seen EXCEPT ![r] = most] /\ UNCHANGED <<most, at>>
      <4>1. Moves(r, "cas")
        BY <2>1, <2>2, <2>3, <2>4, <2>11, <3>1, <3>3 DEF To, StatsType, Inside, Moves
      <4> QED BY <4>1, StatsMove, Zenon
    <3> QED BY <2>11, <3>2, <3>3, Zenon DEF CasMost
  <2> QED BY <1>2, <2>5, <2>6, <2>7, <2>8, <2>9, <2>10, <2>11, Zenon DEF RecordSteps
<1> QED BY <1>1, <1>2, Zenon DEF ONext

\* The counters of ObservationStats are exact whenever no recorder is inside record.
THEOREM StatsAreExact == OSpec => []StatsExact
<1>1. StatsInv => StatsExact
  <2> SUFFICES ASSUME StatsInv, Quiet PROVE StatsExact
    BY Zenon DEF StatsExact
  <2>1. \A L \in SUBSET Inside : Past(L) = All
    <3>1. \A x \in All : x[1] \in Recorders
      BY AllMembers
    <3> QED BY <3>1, Zenon DEF Quiet, Past, Inside
  <2>2. Past({"completed"}) = All /\ Past({"completed", "total"}) = All /\ Past(Inside) = All
    BY <2>1, Zenon DEF Inside
  <2> QED BY <2>2, Zenon DEF StatsInv, StatsExact
<1> QED BY <1>1, StatsInit, StatsStep, PTL DEF OSpec

-----------------------------------------------------------------------------
(* The diagnostics store: three levels, eviction and snapshots              *)

\* A call of record_*: the level that is next, the generation of the handle, and whether
\* the record is a provider failure.
Call(n, k, b) == [next |-> n, key |-> k, failure |-> b]

StoreType ==
  /\ current \in [Recorded -> 0..MaxGenerations]
  /\ ofGen \in [Keys -> Nat] /\ ofService \in [Recorded -> Nat] /\ ofLane \in Nat /\ probes \in Nat
  /\ writing \in [Writers -> {Idle} \cup [next : 1..4, key : Keys, failure : BOOLEAN]]
  /\ failures \in Seq(Nat) /\ pushed \in Nat

\* A generation counts nothing before it is registered, and no call has its handle.
Unregistered ==
  \A k \in Keys : k[2] > current[k[1]] =>
    ofGen[k] = 0 /\ \A w \in Writers : writing[w] # Idle => writing[w].key # k

KeptNewest ==
  kept = {k \in Keys : k[2] <= current[k[1]] /\ k[2] > current[k[1]] - RetainedGenerations}

\* The calls under way are the difference between the levels.
LevelsAgree ==
  /\ IsFiniteSet(Records(ofGen, Keys)) /\ IsFiniteSet(Outstanding(3, Recorded))
  /\ Cardinality(Records(ofGen, Keys)) + probes = ofLane + Cardinality(Outstanding(3, Recorded))
  /\ \A s \in Recorded :
       /\ IsFiniteSet(Records(ofGen, KeysOf(s))) /\ IsFiniteSet(Outstanding(2, {s}))
       /\ Cardinality(Records(ofGen, KeysOf(s))) = ofService[s] + Cardinality(Outstanding(2, {s}))

FailuresNewest == Ring(failures, pushed, RetainedFailures)

\* What a snapshot counts of a generation in the end, at the least: what it has read of
\* it, or what there is to read by now.
ToCount == [k \in Keys |-> IF k \in snap.todo THEN ofGen[k] ELSE snap.gen[k]]

Snapshots ==
  [stage : {"services", "generations", "taken"}, todo : SUBSET (Recorded \cup Keys),
   service : [Recorded -> Nat], gen : [Keys -> Nat], lost : SUBSET Keys, lane : Nat]

SnapCausal ==
  /\ snap = NoSnap \/ snap \in Snapshots
  /\ snap.stage = "services" => \A s \in Recorded : snap.service[s] <= ofService[s]
  /\ snap.stage = "services" => snap.gen = [k \in Keys |-> 0]
  /\ snap.stage = "taken" => snap.todo = {}
  /\ snap.stage \in {"generations", "taken"} =>
       \A s \in Recorded : snap.lost \cap KeysOf(s) = {} =>
         /\ IsFiniteSet(Records(ToCount, KeysOf(s)))
         /\ snap.service[s] <= Cardinality(Records(ToCount, KeysOf(s)))

StoreInv == StoreType /\ Unregistered /\ KeptNewest /\ LevelsAgree /\ FailuresNewest /\ SnapCausal

\* One more record of a generation is one more element.
LEMMA RecordsAdd ==
  ASSUME NEW f \in [Keys -> Nat], NEW k \in Keys, NEW K \in SUBSET Keys, k \in K,
         IsFiniteSet(Records(f, K))
  PROVE  LET g == [f EXCEPT ![k] = @ + 1]
         IN  /\ IsFiniteSet(Records(g, K))
             /\ Cardinality(Records(g, K)) = Cardinality(Records(f, K)) + 1
<1> DEFINE g == [f EXCEPT ![k] = @ + 1]
           x == <<k, f[k] + 1>>
<1>1. Records(g, K) = Records(f, K) \cup {x}
  <2>1. ASSUME NEW y PROVE y \in Records(g, K) <=> y \in Records(f, K) \/ y = x
    <3>1. y \in Records(f, K) <=> \E j \in K : y \in {j} \X (1..f[j])
      BY Zenon DEF Records
    <3>2. y \in Records(g, K) <=> \E j \in K : y \in {j} \X (1..g[j])
      BY Zenon DEF Records
    <3>3. \A j \in K : g[j] = (IF j = k THEN f[k] + 1 ELSE f[j]) /\ f[j] \in Nat
      BY Zenon
    <3>4. \A i : i \in 1..(f[k] + 1) <=> i \in 1..f[k] \/ i = f[k] + 1
      BY <3>3
    <3> QED BY <3>1, <3>2, <3>3, <3>4
  <2> QED BY <2>1, Zenon
<1>2. x \notin Records(f, K)
  BY DEF Records
<1> HIDE DEF g, x
<1>3. /\ IsFiniteSet(Records(f, K) \cup {x})
      /\ Cardinality(Records(f, K) \cup {x}) = Cardinality(Records(f, K)) + 1
  BY <1>2, FS_AddElement, Zenon
<1>4. IsFiniteSet(Records(g, K)) /\ Cardinality(Records(g, K)) = Cardinality(Records(f, K)) + 1
  BY <1>1, <1>3, Zenon
<1> QED BY <1>4, Zenon DEF g

\* Where no count shrinks, none of the elements goes.
LEMMA RecordsGrow ==
  ASSUME NEW f \in [Keys -> Nat], NEW g \in [Keys -> Nat], NEW K \in SUBSET Keys,
         \A k \in K : f[k] <= g[k], IsFiniteSet(Records(g, K))
  PROVE  IsFiniteSet(Records(f, K)) /\ Cardinality(Records(f, K)) <= Cardinality(Records(g, K))
<1>1. Records(f, K) \subseteq Records(g, K)
  <2>1. ASSUME NEW k \in K PROVE {k} \X (1..f[k]) \subseteq {k} \X (1..g[k])
    BY <2>1
  <2> QED BY <2>1 DEF Records
<1> QED BY <1>1, FS_Subset, Zenon

\* Equal counts are equal sets.
LEMMA RecordsSame ==
  ASSUME NEW f, NEW g, NEW K, \A k \in K : f[k] = g[k]
  PROVE  Records(f, K) = Records(g, K)
BY Zenon DEF Records

\* Nothing is recorded at first.
LEMMA StoreInit == DInit => StoreInv
<1> SUFFICES ASSUME DInit PROVE StoreInv
  BY Zenon
<1>1. IsFiniteSet({}) /\ Cardinality({}) = 0
  BY FS_EmptySet, Zenon
<1>2. \A K : K \subseteq Keys => Records(ofGen, K) = {}
  BY DEF DInit, Records
<1>3. \A n, S : Outstanding(n, S) = {}
  BY DEF DInit, Outstanding, Idle
<1>4. \A s \in Recorded : KeysOf(s) \subseteq Keys
  BY Zenon DEF KeysOf
<1>5. StoreType
  BY StoreAssumption DEF DInit, StoreType
<1>6. Unregistered /\ FailuresNewest
  BY StoreAssumption DEF DInit, Unregistered, FailuresNewest, Ring
<1>7. KeptNewest
  BY StoreAssumption DEF DInit, KeptNewest, Keys
<1>8. LevelsAgree
  <2>1. Records(ofGen, Keys) = {} /\ Outstanding(3, Recorded) = {} /\ probes = 0 /\ ofLane = 0
    BY <1>2, <1>3, Zenon DEF DInit
  <2>2. ASSUME NEW s \in Recorded
        PROVE  Records(ofGen, KeysOf(s)) = {} /\ Outstanding(2, {s}) = {} /\ ofService[s] = 0
    BY <1>2, <1>3, <1>4, Zenon DEF DInit
  <2>3. 0 + 0 = 0
    OBVIOUS
  <2> QED BY <1>1, <2>1, <2>2, <2>3, Zenon DEF LevelsAgree
<1>9. SnapCausal
  <2>1. snap = NoSnap /\ snap.stage = "none"
    BY Zenon DEF DInit, NoSnap
  <2> QED BY <2>1, Zenon DEF SnapCausal
<1> QED BY <1>5, <1>6, <1>7, <1>8, <1>9, Zenon DEF StoreInv

\* register_generation: the new generation is kept and, of a service with as many as
\* are retained, the oldest goes.
LEMMA RegisterStep ==
  ASSUME StoreInv, NEW s \in Recorded, Register(s)
  PROVE  StoreInv'
<1> DEFINE c == current[s]
           new == <<s, c + 1>>
           mine == {k \in kept \cup {new} : k[1] = s}
<1>1. /\ c \in 0..MaxGenerations /\ c + 1 \in 1..MaxGenerations
      /\ current' = [current EXCEPT ![s] = c + 1] /\ kept' = Retained(s, kept \cup {new})
      /\ UNCHANGED <<ofGen, ofService, ofLane, probes, writing, failures, pushed, snap>>
  BY StoreAssumption DEF StoreInv, StoreType, Register
<1>2. \A q \in Recorded : current'[q] = (IF q = s THEN c + 1 ELSE current[q]) /\ current[q] \in Nat
  BY <1>1 DEF StoreInv, StoreType
<1>3. \A k \in Keys : k[1] \in Recorded /\ k[2] \in 1..MaxGenerations /\ k = <<k[1], k[2]>>
  BY DEF Keys
<1>4. new \in Keys
  BY <1>1, Zenon DEF Keys
<1>5. StoreType' /\ Unregistered' /\ FailuresNewest'
  <2>1. StoreType'
    BY <1>1 DEF StoreInv, StoreType
  <2>2. Unregistered'
    BY <1>1, <1>2, <1>3 DEF StoreInv, Unregistered
  <2>3. FailuresNewest'
    BY <1>1, Zenon DEF StoreInv, FailuresNewest
  <2> QED BY <2>1, <2>2, <2>3, Zenon
<1>6. KeptNewest'
  <2>1. \A k \in Keys : k \in kept <=> k[2] <= current[k[1]] /\ k[2] > current[k[1]] - RetainedGenerations
    BY Zenon DEF StoreInv, KeptNewest
  <2>2. kept \subseteq Keys
    BY Zenon DEF StoreInv, KeptNewest
  <2>3. ASSUME NEW k \in mine
        PROVE  Cardinality({j \in mine : j[2] > k[2]}) = c + 1 - k[2]
    <3>1. k \in Keys /\ k[1] = s /\ k[2] \in 1..c + 1 /\ k[2] > c - RetainedGenerations
      BY <1>1, <1>3, <1>4, <2>1, <2>2, StoreAssumption
    <3>2. ASSUME NEW j PROVE j \in mine /\ j[2] > k[2] <=> j \in {s} \X (k[2] + 1..c + 1)
      <4>1. ASSUME j \in mine, j[2] > k[2] PROVE j \in {s} \X (k[2] + 1..c + 1)
        <5>1. j \in Keys /\ j[1] = s /\ j[2] <= c + 1
          BY <1>1, <1>3, <1>4, <2>1, <2>2, <4>1
        <5> QED BY <1>1, <1>3, <3>1, <4>1, <5>1
      <4>2. ASSUME j \in {s} \X (k[2] + 1..c + 1) PROVE j \in mine /\ j[2] > k[2]
        <5>1. PICK n \in k[2] + 1..c + 1 : j = <<s, n>>
          BY <4>2
        <5>2. n \in 1..MaxGenerations /\ j \in Keys /\ n > c - RetainedGenerations
          BY <1>1, <3>1, <5>1, StoreAssumption DEF Keys
        <5> QED BY <1>1, <2>1, <3>1, <5>1, <5>2
      <4> QED BY <4>1, <4>2, Zenon
    <3>3. {j \in mine : j[2] > k[2]} = {s} \X (k[2] + 1..c + 1)
      BY <3>2, Zenon
    <3>4. Cardinality({s} \X (k[2] + 1..c + 1)) = (c + 1) - (k[2] + 1) + 1
      <4>1. k[2] + 1 \in Int /\ c + 1 \in Int /\ k[2] + 1 <= c + 1 + 1
        BY <1>1, <3>1
      <4>2. \A x : \A a, b \in Int : a <= b + 1 => Cardinality({x} \X (a..b)) = b - a + 1
        BY BlockCount, Zenon
      <4> QED BY <4>1, <4>2, Zenon
    <3>5. (c + 1) - (k[2] + 1) + 1 = c + 1 - k[2]
      BY <1>1, <3>1
    <3> QED BY <3>3, <3>4, <3>5, Zenon
  <2>4. \A k : k \in kept' <=> \/ k \in kept /\ k[1] # s
                               \/ k \in mine /\ Cardinality({j \in mine : j[2] > k[2]}) < RetainedGenerations
    BY <1>1 DEF Retained
  <2>5. \A k \in mine : k \in kept' <=> c + 1 - k[2] < RetainedGenerations
    <3> HIDE DEF mine
    <3>1. \A k \in mine : k[1] = s
      BY Zenon DEF mine
    <3> QED BY <2>3, <2>4, <3>1, Zenon
  <2>6. ASSUME NEW k \in Keys
        PROVE  k \in kept' <=> k[2] <= current'[k[1]] /\ k[2] > current'[k[1]] - RetainedGenerations
    <3>1. CASE k[1] # s
      BY <1>2, <1>3, <2>1, <2>4, <3>1, Zenon
    <3>2. CASE k[1] = s /\ k \in mine
      <4>1. k[2] <= c + 1
        BY <1>1, <1>3, <2>1, <3>2
      <4>2. k \in kept' <=> c + 1 - k[2] < RetainedGenerations
        BY <2>5, <3>2, Zenon
      <4>3. current'[k[1]] = c + 1 /\ k[2] \in Nat /\ c \in Nat /\ RetainedGenerations \in Nat
        BY <1>1, <1>2, <1>3, <3>2, StoreAssumption
      <4> HIDE DEF mine
      <4> QED BY <4>1, <4>2, <4>3
    <3>3. CASE k[1] = s /\ k \notin mine
      <4>1. k \notin kept /\ k # new /\ k \notin kept'
        BY <2>4, <3>3, Zenon
      <4>2. k[2] # c + 1
        BY <1>3, <3>3, <4>1, Zenon
      <4> QED BY <1>1, <1>2, <1>3, <2>1, <3>3, <4>1, <4>2, StoreAssumption
    <3> QED BY <3>1, <3>2, <3>3, Zenon
  <2>7. kept' \subseteq Keys
    BY <1>4, <2>2, <2>4, Zenon
  <2> QED BY <2>6, <2>7, Zenon DEF KeptNewest
<1>7. LevelsAgree'
  BY <1>1, Zenon DEF StoreInv, LevelsAgree, Outstanding
<1>8. SnapCausal'
  BY <1>1, Zenon DEF StoreInv, SnapCausal, ToCount
<1> QED BY <1>5, <1>6, <1>7, <1>8, Zenon DEF StoreInv

\* A writer's call is Idle, or has a level, a generation and a kind.
LEMMA CallShape ==
  ASSUME StoreType, NEW w \in Writers
  PROVE  /\ writing[w] = Idle \/ \E n \in 1..4, k \in Keys, b \in BOOLEAN : writing[w] = Call(n, k, b)
         /\ writing[w] = Idle => writing[w].next = 0
<1>1. writing[w] \in {Idle} \cup [next : 1..4, key : Keys, failure : BOOLEAN]
  BY Zenon DEF StoreType
<1>2. CASE writing[w] \in [next : 1..4, key : Keys, failure : BOOLEAN]
  <2>1. writing[w] = Call(writing[w].next, writing[w].key, writing[w].failure)
    BY <1>2, Zenon DEF Call
  <2>2. writing[w].next \in 1..4 /\ writing[w].key \in Keys /\ writing[w].failure \in BOOLEAN
    BY <1>2, Zenon
  <2>3. writing[w].next # 0
    BY <2>2
  <2> QED BY <2>1, <2>2, <2>3 DEF Idle
<1> QED BY <1>1, <1>2 DEF Idle

\* Only the calls between the generation's level and a later one are outstanding.
Owes(c, n, S) == c.next \in 2..3 /\ c.key[1] \in S /\ n >= c.next

\* What one writer's next place changes of who is outstanding on a level.
LEMMA OutstandingMoves ==
  ASSUME StoreType, NEW w \in Writers, NEW c, writing' = [writing EXCEPT ![w] = c], NEW n, NEW S
  PROVE  /\ (Owes(writing[w], n, S) <=> Owes(c, n, S)) => Outstanding(n, S)' = Outstanding(n, S)
         /\ ~Owes(writing[w], n, S) /\ Owes(c, n, S) =>
              Outstanding(n, S)' = Outstanding(n, S) \cup {w} /\ w \notin Outstanding(n, S)
         /\ Owes(writing[w], n, S) /\ ~Owes(c, n, S) =>
              Outstanding(n, S)' = Outstanding(n, S) \ {w} /\ w \in Outstanding(n, S)
<1>1. \A v \in Writers : writing'[v] = IF v = w THEN c ELSE writing[v]
  BY Zenon DEF StoreType
<1> QED BY <1>1, Zenon DEF Outstanding, Owes

\* A record_* call begins: nothing counts it yet.
LEMMA BeginStep ==
  ASSUME StoreInv, NEW w \in Writers, NEW k \in Keys, NEW b \in BOOLEAN, Begin(w, k, b)
  PROVE  StoreInv'
<1>1. /\ writing[w] = Idle /\ k[2] <= current[k[1]] /\ writing' = [writing EXCEPT ![w] = Call(1, k, b)]
      /\ UNCHANGED <<current, kept, ofGen, ofService, ofLane, probes, failures, pushed, snap>>
  BY Zenon DEF Begin, Call
<1>2. Call(1, k, b) \in [next : 1..4, key : Keys, failure : BOOLEAN] /\ Call(1, k, b).key = k
      /\ Call(1, k, b).next = 1 /\ Idle.next = 0
  BY DEF Call, Idle
<1>3. StoreType'
  BY <1>1, <1>2, Zenon DEF StoreInv, StoreType
<1>4. Unregistered'
  <2>1. \A v \in Writers : writing'[v] = IF v = w THEN Call(1, k, b) ELSE writing[v]
    BY <1>1, Zenon DEF StoreInv, StoreType
  <2>2. k[1] \in Recorded /\ k[2] \in Nat /\ current[k[1]] \in Nat
    BY DEF Keys, StoreInv, StoreType
  <2> QED BY <1>1, <1>2, <2>1, <2>2 DEF StoreInv, Unregistered
<1>5. ASSUME NEW n, NEW S PROVE Outstanding(n, S)' = Outstanding(n, S)
  <2> DEFINE c == Call(1, k, b)
  <2>1. ~Owes(writing[w], n, S) /\ ~Owes(c, n, S)
    <3>1. 0 \notin 2..3 /\ 1 \notin 2..3
      OBVIOUS
    <3> QED BY <1>1, <1>2, <3>1, Zenon DEF Owes
  <2>2. StoreType /\ writing' = [writing EXCEPT ![w] = c]
    BY <1>1, Zenon DEF StoreInv
  <2> HIDE DEF c
  <2> QED BY <2>1, <2>2, OutstandingMoves, Zenon
<1>6. LevelsAgree'
  BY <1>1, <1>5, Zenon DEF StoreInv, LevelsAgree
<1>7. KeptNewest' /\ FailuresNewest'
  BY <1>1, Zenon DEF StoreInv, KeptNewest, FailuresNewest
<1>8. SnapCausal'
  BY <1>1, Zenon DEF StoreInv, SnapCausal, ToCount
<1> QED BY <1>3, <1>4, <1>6, <1>7, <1>8, Zenon DEF StoreInv

\* record_provider_failure of the store: the ring drops its oldest entry when it is full.
LEMMA ToStoreStep ==
  ASSUME StoreInv, NEW w \in Writers, ToStore(w)
  PROVE  StoreInv'
<1>1. /\ writing[w].next = 4 /\ writing' = [writing EXCEPT ![w] = Idle]
      /\ failures' = Push(pushed + 1) /\ pushed' = pushed + 1
      /\ UNCHANGED <<current, kept, ofGen, ofService, ofLane, probes, snap>>
  BY Zenon DEF ToStore
<1>2. Idle.next = 0
  BY Zenon DEF Idle
<1>3. failures' \in Seq(Nat) /\ FailuresNewest'
  <2>1. pushed \in Nat /\ RetainedFailures \in Nat \ {0} /\ Ring(failures, pushed, RetainedFailures)
    BY StoreAssumption, Zenon DEF StoreInv, StoreType, FailuresNewest
  <2>2. Ring(failures', pushed', RetainedFailures)
    BY <1>1, <2>1, RingTakes, Zenon DEF Push
  <2> QED BY <2>2, Zenon DEF FailuresNewest, Ring
<1>4. StoreType'
  BY <1>1, <1>3 DEF StoreInv, StoreType
<1>5. Unregistered'
  <2>1. \A v \in Writers : writing'[v] = IF v = w THEN Idle ELSE writing[v]
    BY <1>1, Zenon DEF StoreInv, StoreType
  <2> QED BY <1>1, <2>1, Zenon DEF StoreInv, Unregistered
<1>6. ASSUME NEW n, NEW S PROVE Outstanding(n, S)' = Outstanding(n, S)
  <2>1. ~Owes(writing[w], n, S) /\ ~Owes(Idle, n, S)
    BY <1>1, <1>2 DEF Owes
  <2>2. StoreType
    BY Zenon DEF StoreInv
  <2> QED BY <1>1, <2>1, <2>2, OutstandingMoves, Zenon
<1>7. LevelsAgree'
  BY <1>1, <1>6, Zenon DEF StoreInv, LevelsAgree
<1>8. KeptNewest'
  BY <1>1, Zenon DEF StoreInv, KeptNewest
<1>9. SnapCausal'
  BY <1>1, Zenon DEF StoreInv, SnapCausal, ToCount
<1> QED BY <1>3, <1>4, <1>5, <1>7, <1>8, <1>9, Zenon DEF StoreInv

\* The lane's probe counts for the lane alone.
LEMMA LaneProbeStep ==
  ASSUME StoreInv, LaneProbe
  PROVE  StoreInv'
<1>1. /\ probes' = probes + 1 /\ ofLane' = ofLane + 1
      /\ UNCHANGED <<current, kept, ofGen, ofService, writing, failures, pushed, snap>>
  BY Zenon DEF LaneProbe
<1>2. StoreType' /\ Unregistered' /\ KeptNewest' /\ FailuresNewest' /\ SnapCausal'
  <2>1. StoreType'
    BY <1>1 DEF StoreInv, StoreType
  <2>2. Unregistered'
    BY <1>1, Zenon DEF StoreInv, Unregistered
  <2>3. KeptNewest' /\ FailuresNewest'
    BY <1>1, Zenon DEF StoreInv, KeptNewest, FailuresNewest
  <2>4. SnapCausal'
    BY <1>1, Zenon DEF StoreInv, SnapCausal, ToCount
  <2> QED BY <2>1, <2>2, <2>3, <2>4, Zenon
<1>3. LevelsAgree'
  <2>1. \A n, S : Outstanding(n, S)' = Outstanding(n, S)
    BY <1>1, Zenon DEF Outstanding
  <2>2. /\ IsFiniteSet(Records(ofGen, Keys)) /\ IsFiniteSet(Outstanding(3, Recorded))
        /\ Cardinality(Records(ofGen, Keys)) + probes = ofLane + Cardinality(Outstanding(3, Recorded))
    BY Zenon DEF StoreInv, LevelsAgree
  <2>3. Cardinality(Records(ofGen, Keys)) \in Nat /\ Cardinality(Outstanding(3, Recorded)) \in Nat
    BY <2>2, FS_CardinalityType, Zenon
  <2>4. probes \in Nat /\ ofLane \in Nat
    BY Zenon DEF StoreInv, StoreType
  <2>5. Cardinality(Records(ofGen, Keys)) + probes' = ofLane' + Cardinality(Outstanding(3, Recorded))
    <3>1. AgreeBeside(Cardinality(Records(ofGen, Keys)), probes, ofLane, Cardinality(Outstanding(3, Recorded)))
      BY <2>2, <2>3, <2>4, Zenon DEF AgreeBeside
    <3>2. AgreeBeside(Cardinality(Records(ofGen, Keys)), probes + 1, ofLane + 1,
                      Cardinality(Outstanding(3, Recorded)))
      BY <3>1, OneMoreBeside, Zenon
    <3> QED BY <1>1, <3>2, Zenon DEF AgreeBeside
  <2> QED BY <1>1, <2>1, <2>2, <2>5, Zenon DEF StoreInv, LevelsAgree
<1> QED BY <1>2, <1>3, Zenon DEF StoreInv

\* A call that reaches the generation is outstanding on the next levels, and one that
\* reaches a level is no longer outstanding on it.
LEMMA OutstandingOf ==
  ASSUME StoreType, NEW w \in Writers, NEW c, writing' = [writing EXCEPT ![w] = c], NEW n, NEW S,
         IsFiniteSet(Outstanding(n, S))
  PROVE  /\ IsFiniteSet(Outstanding(n, S)')
         /\ (Owes(writing[w], n, S) <=> Owes(c, n, S)) =>
              Cardinality(Outstanding(n, S)') = Cardinality(Outstanding(n, S))
         /\ ~Owes(writing[w], n, S) /\ Owes(c, n, S) =>
              Cardinality(Outstanding(n, S)') = Cardinality(Outstanding(n, S)) + 1
         /\ Owes(writing[w], n, S) /\ ~Owes(c, n, S) =>
              /\ Cardinality(Outstanding(n, S)') = Cardinality(Outstanding(n, S)) - 1
              /\ Cardinality(Outstanding(n, S)) > 0
<1> DEFINE O == Outstanding(n, S)
<1>1. /\ (Owes(writing[w], n, S) <=> Owes(c, n, S)) => O' = O
      /\ ~Owes(writing[w], n, S) /\ Owes(c, n, S) => O' = O \cup {w} /\ w \notin O
      /\ Owes(writing[w], n, S) /\ ~Owes(c, n, S) => O' = O \ {w} /\ w \in O
  BY OutstandingMoves, Zenon
<1> HIDE DEF O
<1>2. IsFiniteSet(O)
  BY Zenon DEF O
<1>3. /\ IsFiniteSet(O \cup {w})
      /\ Cardinality(O \cup {w}) = IF w \in O THEN Cardinality(O) ELSE Cardinality(O) + 1
  BY <1>2, FS_AddElement, Zenon
<1>4. /\ IsFiniteSet(O \ {w})
      /\ Cardinality(O \ {w}) = IF w \in O THEN Cardinality(O) - 1 ELSE Cardinality(O)
  BY <1>2, FS_RemoveElement, Zenon
<1>5. w \in O => Cardinality(O) > 0
  <2>1. Cardinality(O \ {w}) \in Nat /\ Cardinality(O) \in Nat
    BY <1>2, <1>4, FS_CardinalityType, Zenon
  <2> QED BY <1>4, <2>1
<1>6. /\ IsFiniteSet(O')
      /\ (Owes(writing[w], n, S) <=> Owes(c, n, S)) => Cardinality(O') = Cardinality(O)
      /\ ~Owes(writing[w], n, S) /\ Owes(c, n, S) => Cardinality(O') = Cardinality(O) + 1
      /\ Owes(writing[w], n, S) /\ ~Owes(c, n, S) =>
           Cardinality(O') = Cardinality(O) - 1 /\ Cardinality(O) > 0
  BY <1>1, <1>2, <1>3, <1>4, <1>5, Zenon
<1> QED BY <1>6, Zenon DEF O

\* A record_* call reaches its next level: what it counts there, and where it goes on.
Reached(w, k, b, c) ==
  /\ writing' = [writing EXCEPT ![w] = c]
  /\ \/ /\ writing[w] = Call(1, k, b) /\ c = Call(2, k, b)
        /\ ofGen' = [ofGen EXCEPT ![k] = @ + 1] /\ UNCHANGED <<ofService, ofLane>>
     \/ /\ writing[w] = Call(2, k, b) /\ c = Call(3, k, b)
        /\ ofService' = [ofService EXCEPT ![k[1]] = @ + 1] /\ UNCHANGED <<ofGen, ofLane>>
     \/ /\ writing[w] = Call(3, k, b) /\ c = IF b THEN Call(4, k, b) ELSE Idle
        /\ ofLane' = ofLane + 1 /\ UNCHANGED <<ofGen, ofService>>

\* Each of Record's three levels.
LEMMA Reaches ==
  ASSUME StoreType, NEW w \in Writers, Record(w)
  PROVE  \E k \in Keys, b \in BOOLEAN : \E c : Reached(w, k, b, c)
<1>1. PICK n \in 1..4, k \in Keys, b \in BOOLEAN : writing[w] = Call(n, k, b)
  <2>1. writing[w].next # 0
    BY DEF Record
  <2> QED BY <2>1, CallShape, Zenon
<1>2. /\ Call(n, k, b).next = n /\ Call(n, k, b).key = k /\ Call(n, k, b).failure = b
      /\ [Call(n, k, b) EXCEPT !.next = @ + 1] = Call(n + 1, k, b)
  BY DEF Call
<1>3. n \in 1..3
  BY <1>1, <1>2, Zenon DEF Record
<1> DEFINE c == IF n < 3 \/ b THEN Call(n + 1, k, b) ELSE Idle
           one(level) == IF Levels[n] = level THEN 1 ELSE 0
<1>4. writing' = [writing EXCEPT ![w] = c]
  <2>1. writing' = [writing EXCEPT ![w] = Onward(Call(n, k, b))]
    BY <1>1, Zenon DEF Record
  <2>2. Onward(Call(n, k, b)) = c
    BY <1>2, Zenon DEF Onward
  <2> QED BY <2>1, <2>2, Zenon
<1>5. /\ ofGen' = [ofGen EXCEPT ![k] = @ + one("generation")]
      /\ ofService' = [ofService EXCEPT ![k[1]] = @ + one("service")]
      /\ ofLane' = ofLane + one("lane")
  BY <1>1, <1>2, Zenon DEF Record
<1>6. /\ ofGen \in [Keys -> Nat] /\ ofService \in [Recorded -> Nat] /\ ofLane \in Nat /\ k[1] \in Recorded
  BY Zenon DEF StoreType, Keys
<1>7. /\ [ofGen EXCEPT ![k] = @ + 0] = ofGen /\ [ofService EXCEPT ![k[1]] = @ + 0] = ofService
      /\ ofLane + 0 = ofLane
  <2>1. ofGen[k] + 0 = ofGen[k] /\ ofService[k[1]] + 0 = ofService[k[1]] /\ ofLane + 0 = ofLane
    BY <1>6
  <2> QED BY <1>6, <2>1, Zenon
<1>8. CASE n = 1
  <2>1. one("generation") = 1 /\ one("service") = 0 /\ one("lane") = 0 /\ c = Call(2, k, b)
    BY <1>8 DEF Levels
  <2> HIDE DEF c, one
  <2>2. ofGen' = [ofGen EXCEPT ![k] = @ + 1] /\ ofService' = ofService /\ ofLane' = ofLane
    BY <1>5, <1>7, <2>1, Zenon
  <2> QED BY <1>1, <1>4, <1>8, <2>1, <2>2, Zenon DEF Reached
<1>9. CASE n = 2
  <2>1. one("generation") = 0 /\ one("service") = 1 /\ one("lane") = 0 /\ c = Call(3, k, b)
    BY <1>9 DEF Levels
  <2> HIDE DEF c, one
  <2>2. ofService' = [ofService EXCEPT ![k[1]] = @ + 1] /\ ofGen' = ofGen /\ ofLane' = ofLane
    BY <1>5, <1>7, <2>1, Zenon
  <2> QED BY <1>1, <1>4, <1>9, <2>1, <2>2, Zenon DEF Reached
<1>10. CASE n = 3
  <2>1. /\ one("generation") = 0 /\ one("service") = 0 /\ one("lane") = 1
        /\ c = IF b THEN Call(4, k, b) ELSE Idle
    BY <1>10 DEF Levels
  <2> HIDE DEF c, one
  <2>2. ofService' = ofService /\ ofGen' = ofGen /\ ofLane' = ofLane + 1
    BY <1>5, <1>7, <2>1, Zenon
  <2> QED BY <1>1, <1>4, <1>10, <2>1, <2>2, Zenon DEF Reached
<1> QED BY <1>3, <1>8, <1>9, <1>10

\* Whatever the level, the call's handle stays that of a registered generation, and
\* nothing else than the counts moves.
LEMMA RecordKeeps ==
  ASSUME StoreInv, NEW w \in Writers, Record(w)
  PROVE  StoreType' /\ Unregistered' /\ KeptNewest' /\ FailuresNewest'
<1>1. StoreType /\ UNCHANGED <<current, kept, probes, failures, pushed, snap>>
  BY Zenon DEF StoreInv, Record
<1>0. PICK k \in Keys, b \in BOOLEAN : \E c : Reached(w, k, b, c)
  BY <1>1, Reaches, Zenon
<1>2a. PICK c : Reached(w, k, b, c)
  BY <1>0, Zenon
<1>2. /\ writing' = [writing EXCEPT ![w] = c]
      /\ \/ /\ writing[w] = Call(1, k, b) /\ c = Call(2, k, b)
            /\ ofGen' = [ofGen EXCEPT ![k] = @ + 1] /\ UNCHANGED <<ofService, ofLane>>
         \/ /\ writing[w] = Call(2, k, b) /\ c = Call(3, k, b)
            /\ ofService' = [ofService EXCEPT ![k[1]] = @ + 1] /\ UNCHANGED <<ofGen, ofLane>>
         \/ /\ writing[w] = Call(3, k, b) /\ c = IF b THEN Call(4, k, b) ELSE Idle
            /\ ofLane' = ofLane + 1 /\ UNCHANGED <<ofGen, ofService>>
  BY <1>2a, Zenon DEF Reached
<1>3. \A n \in 1..4 : /\ Call(n, k, b) \in [next : 1..4, key : Keys, failure : BOOLEAN]
                      /\ Call(n, k, b).key = k /\ Call(n, k, b) # Idle
  <2>1. \A n \in 1..4 : Call(n, k, b).next # Idle.next
    BY DEF Call, Idle
  <2> QED BY <2>1, Zenon DEF Call
<1>4. writing[w] # Idle /\ writing[w].key = k
  BY <1>2, <1>3
<1>5. c \in {Idle} \cup [next : 1..4, key : Keys, failure : BOOLEAN] /\ (c # Idle => c.key = k)
  BY <1>2, <1>3
<1>6. /\ ofGen' \in [Keys -> Nat] /\ ofService' \in [Recorded -> Nat] /\ ofLane' \in Nat
      /\ \A j \in Keys : j # k => ofGen'[j] = ofGen[j]
  <2>1. /\ ofGen \in [Keys -> Nat] /\ ofService \in [Recorded -> Nat] /\ ofLane \in Nat
        /\ k[1] \in Recorded
    BY <1>1, Zenon DEF StoreType, Keys
  <2>2. ofGen[k] + 1 \in Nat /\ ofService[k[1]] + 1 \in Nat /\ ofLane + 1 \in Nat
    BY <2>1
  <2> QED BY <1>2, <2>1, <2>2, Zenon
<1>7. \A v \in Writers : writing'[v] = IF v = w THEN c ELSE writing[v]
  BY <1>1, <1>2, Zenon DEF StoreType
<1>8. StoreType'
  BY <1>1, <1>2, <1>5, <1>6, Zenon DEF StoreType
<1>9. Unregistered'
  <2>1. ~(k[2] > current[k[1]])
    BY <1>4, Zenon DEF StoreInv, Unregistered
  <2>2. \A v \in Writers : writing'[v] # Idle => writing[v] # Idle /\ writing'[v].key = writing[v].key
    BY <1>4, <1>5, <1>7, Zenon
  <2>3. Unregistered
    BY Zenon DEF StoreInv
  <2> QED BY <1>1, <1>6, <2>1, <2>2, <2>3, Zenon DEF Unregistered
<1> QED BY <1>1, <1>8, <1>9, Zenon DEF StoreInv, KeptNewest, FailuresNewest

\* A snapshot that has begun.
LEMMA SnapShape ==
  ASSUME SnapCausal, snap.stage # "none"
  PROVE  /\ snap \in Snapshots
         /\ snap.stage \in {"services", "generations", "taken"}
         /\ snap.todo \in SUBSET (Recorded \cup Keys) /\ snap.service \in [Recorded -> Nat]
         /\ snap.gen \in [Keys -> Nat] /\ snap.lost \in SUBSET Keys /\ snap.lane \in Nat
<1>1. snap \in Snapshots
  <2>1. NoSnap.stage = "none"
    BY DEF NoSnap
  <2> QED BY <2>1, Zenon DEF SnapCausal
<1> QED BY <1>1, Zenon DEF Snapshots

\* The three levels, and a snapshot under way, when a call reaches one of them.
LEMMA RecordStep ==
  ASSUME StoreInv, NEW w \in Writers, Record(w)
  PROVE  StoreInv'
<1>1. StoreType /\ UNCHANGED <<current, kept, probes, failures, pushed, snap>>
  BY Zenon DEF StoreInv, Record
<1>0. PICK k \in Keys, b \in BOOLEAN : \E c : Reached(w, k, b, c)
  BY <1>1, Reaches, Zenon
<1>2a. PICK c : Reached(w, k, b, c)
  BY <1>0, Zenon
<1>2. /\ writing' = [writing EXCEPT ![w] = c]
      /\ \/ /\ writing[w] = Call(1, k, b) /\ c = Call(2, k, b)
            /\ ofGen' = [ofGen EXCEPT ![k] = @ + 1] /\ UNCHANGED <<ofService, ofLane>>
         \/ /\ writing[w] = Call(2, k, b) /\ c = Call(3, k, b)
            /\ ofService' = [ofService EXCEPT ![k[1]] = @ + 1] /\ UNCHANGED <<ofGen, ofLane>>
         \/ /\ writing[w] = Call(3, k, b) /\ c = IF b THEN Call(4, k, b) ELSE Idle
            /\ ofLane' = ofLane + 1 /\ UNCHANGED <<ofGen, ofService>>
  BY <1>2a, Zenon DEF Reached
<1>3. /\ k[1] \in Recorded /\ k \in KeysOf(k[1]) /\ \A s \in Recorded : KeysOf(s) \subseteq Keys
      /\ \A s \in Recorded : k \in KeysOf(s) => s = k[1]
  BY Zenon DEF Keys, KeysOf
<1>4. \A n \in 1..4 : \A m \in 2..3 : \A S : Owes(Call(n, k, b), m, S) <=> n \in 2..3 /\ k[1] \in S /\ m >= n
  BY Zenon DEF Owes, Call
<1>5. \A m \in 2..3 : \A S : ~Owes(Idle, m, S)
  BY DEF Owes, Idle
<1>6. /\ ofGen \in [Keys -> Nat] /\ ofService \in [Recorded -> Nat] /\ ofLane \in Nat /\ probes \in Nat
  BY <1>1, Zenon DEF StoreType
<1>7. ASSUME NEW n, NEW S, IsFiniteSet(Outstanding(n, S))
      PROVE  /\ IsFiniteSet(Outstanding(n, S)')
             /\ (Owes(writing[w], n, S) <=> Owes(c, n, S)) =>
                  Cardinality(Outstanding(n, S)') = Cardinality(Outstanding(n, S))
             /\ ~Owes(writing[w], n, S) /\ Owes(c, n, S) =>
                  Cardinality(Outstanding(n, S)') = Cardinality(Outstanding(n, S)) + 1
             /\ Owes(writing[w], n, S) /\ ~Owes(c, n, S) =>
                  /\ Cardinality(Outstanding(n, S)') = Cardinality(Outstanding(n, S)) - 1
                  /\ Cardinality(Outstanding(n, S)) > 0
  BY <1>1, <1>2, <1>7, OutstandingOf, Zenon
<1>8. /\ IsFiniteSet(Records(ofGen, Keys)) /\ IsFiniteSet(Outstanding(3, Recorded))
      /\ Cardinality(Records(ofGen, Keys)) + probes = ofLane + Cardinality(Outstanding(3, Recorded))
      /\ Cardinality(Records(ofGen, Keys)) \in Nat /\ Cardinality(Outstanding(3, Recorded)) \in Nat
  BY FS_CardinalityType, Zenon DEF StoreInv, LevelsAgree
<1>9. \A s \in Recorded :
        /\ IsFiniteSet(Records(ofGen, KeysOf(s))) /\ IsFiniteSet(Outstanding(2, {s}))
        /\ Cardinality(Records(ofGen, KeysOf(s))) = ofService[s] + Cardinality(Outstanding(2, {s}))
        /\ Cardinality(Records(ofGen, KeysOf(s))) \in Nat /\ Cardinality(Outstanding(2, {s})) \in Nat
  BY FS_CardinalityType, Zenon DEF StoreInv, LevelsAgree
<1>10. CASE writing[w] = Call(1, k, b) /\ c = Call(2, k, b)
            /\ ofGen' = [ofGen EXCEPT ![k] = @ + 1] /\ UNCHANGED <<ofService, ofLane>>
  <2>1. \A S : ~Owes(writing[w], 3, S) /\ ~Owes(writing[w], 2, S)
               /\ (Owes(c, 3, S) <=> k[1] \in S) /\ (Owes(c, 2, S) <=> k[1] \in S)
    BY <1>4, <1>10
  <2>2. \A K \in SUBSET Keys : k \in K /\ IsFiniteSet(Records(ofGen, K)) =>
          /\ IsFiniteSet(Records(ofGen', K))
          /\ Cardinality(Records(ofGen', K)) = Cardinality(Records(ofGen, K)) + 1
    BY <1>6, <1>10, RecordsAdd, Zenon
  <2>3. \A K \in SUBSET Keys : k \notin K => Records(ofGen', K) = Records(ofGen, K)
    <3>1. \A K \in SUBSET Keys : k \notin K => \A j \in K : ofGen'[j] = ofGen[j]
      BY <1>6, <1>10, Zenon
    <3> QED BY <3>1, RecordsSame, Zenon
  <2>4. /\ IsFiniteSet(Records(ofGen', Keys)) /\ IsFiniteSet(Outstanding(3, Recorded)')
        /\ Cardinality(Records(ofGen', Keys)) = Cardinality(Records(ofGen, Keys)) + 1
        /\ Cardinality(Outstanding(3, Recorded)') = Cardinality(Outstanding(3, Recorded)) + 1
    BY <1>3, <1>7, <1>8, <2>1, <2>2, Zenon
  <2>5. Cardinality(Records(ofGen', Keys)) + probes' = ofLane' + Cardinality(Outstanding(3, Recorded)')
    <3>1. AgreeBeside(Cardinality(Records(ofGen, Keys)), probes, ofLane, Cardinality(Outstanding(3, Recorded)))
      BY <1>6, <1>8, Zenon DEF AgreeBeside
    <3>2. AgreeBeside(Cardinality(Records(ofGen, Keys)) + 1, probes, ofLane,
                      Cardinality(Outstanding(3, Recorded)) + 1)
      BY <3>1, OneMoreBeside, Zenon
    <3> QED BY <1>1, <1>10, <2>4, <3>2, Zenon DEF AgreeBeside
  <2>6. ASSUME NEW s \in Recorded
        PROVE  /\ IsFiniteSet(Records(ofGen', KeysOf(s))) /\ IsFiniteSet(Outstanding(2, {s})')
               /\ Cardinality(Records(ofGen', KeysOf(s))) = ofService'[s] + Cardinality(Outstanding(2, {s})')
    <3>1. CASE s = k[1]
      <4>1. /\ IsFiniteSet(Records(ofGen', KeysOf(s))) /\ IsFiniteSet(Outstanding(2, {s})')
            /\ Cardinality(Records(ofGen', KeysOf(s))) = Cardinality(Records(ofGen, KeysOf(s))) + 1
            /\ Cardinality(Outstanding(2, {s})') = Cardinality(Outstanding(2, {s})) + 1
        BY <1>3, <1>7, <1>9, <2>1, <2>2, <3>1, Zenon
      <4>2. ofService[s] \in Nat /\ ofService'[s] = ofService[s]
        BY <1>6, <1>10, Zenon
      <4>3. Agree(Cardinality(Records(ofGen, KeysOf(s))), ofService[s], Cardinality(Outstanding(2, {s})))
        BY <1>9, <4>2, Zenon DEF Agree
      <4>4. Agree(Cardinality(Records(ofGen, KeysOf(s))) + 1, ofService[s], Cardinality(Outstanding(2, {s})) + 1)
        BY <4>3, OneMore, Zenon
      <4> QED BY <4>1, <4>2, <4>4, Zenon DEF Agree
    <3>2. CASE s # k[1]
      BY <1>3, <1>7, <1>9, <1>10, <2>1, <2>3, <3>2, Zenon
    <3> QED BY <3>1, <3>2, Zenon
  <2>7. LevelsAgree'
    BY <2>4, <2>5, <2>6, Zenon DEF LevelsAgree
  <2>8. SnapCausal'
    <3>1. SnapCausal
      BY Zenon DEF StoreInv
    <3>2. ASSUME NEW s \in Recorded, snap.stage \in {"generations", "taken"}, snap.lost \cap KeysOf(s) = {}
          PROVE  /\ IsFiniteSet(Records(ToCount', KeysOf(s)))
                 /\ snap.service[s] <= Cardinality(Records(ToCount', KeysOf(s)))
      <4>1. /\ IsFiniteSet(Records(ToCount, KeysOf(s)))
            /\ snap.service[s] <= Cardinality(Records(ToCount, KeysOf(s)))
        BY <3>1, <3>2, Zenon DEF SnapCausal
      <4>2. snap \in Snapshots
        BY <3>1, <3>2, SnapShape, Zenon
      <4>3. snap.gen \in [Keys -> Nat] /\ snap.service[s] \in Nat
        BY <3>1, <3>2, SnapShape, Zenon
      <4>4. ToCount \in [Keys -> Nat]
        BY <1>6, <4>3, Zenon DEF ToCount
      <4>5. CASE k \in snap.todo /\ k \in KeysOf(s)
        <5>1. ToCount' = [ToCount EXCEPT ![k] = @ + 1]
          BY <1>1, <1>6, <1>10, <4>3, <4>5, Zenon DEF ToCount
        <5>2. /\ IsFiniteSet(Records(ToCount', KeysOf(s)))
              /\ Cardinality(Records(ToCount', KeysOf(s))) = Cardinality(Records(ToCount, KeysOf(s))) + 1
          BY <1>3, <4>1, <4>4, <4>5, <5>1, RecordsAdd, Zenon
        <5>3. Cardinality(Records(ToCount, KeysOf(s))) \in Nat
          BY <4>1, FS_CardinalityType, Zenon
        <5>4. snap.service[s] <= Cardinality(Records(ToCount, KeysOf(s))) + 1
          BY <4>1, <4>3, <5>3, OneLarger, StillBounds, Zenon
        <5> QED BY <5>2, <5>4, Zenon
      <4>6. CASE ~(k \in snap.todo /\ k \in KeysOf(s))
        <5>1. \A j \in KeysOf(s) : ToCount'[j] = ToCount[j]
          BY <1>1, <1>3, <1>6, <1>10, <4>6, Zenon DEF ToCount
        <5>2. Records(ToCount', KeysOf(s)) = Records(ToCount, KeysOf(s))
          BY <5>1, RecordsSame, Zenon
        <5> QED BY <4>1, <5>2, Zenon
      <4> QED BY <4>5, <4>6, Zenon
    <3> QED BY <1>1, <1>10, <3>1, <3>2, Zenon DEF SnapCausal
  <2> QED BY <2>7, <2>8, RecordKeeps, Zenon DEF StoreInv
<1>11. CASE writing[w] = Call(2, k, b) /\ c = Call(3, k, b)
            /\ ofService' = [ofService EXCEPT ![k[1]] = @ + 1] /\ UNCHANGED <<ofGen, ofLane>>
  <2>1. \A S : /\ Owes(writing[w], 3, S) <=> Owes(c, 3, S)
               /\ (Owes(writing[w], 2, S) <=> k[1] \in S) /\ ~Owes(c, 2, S)
    BY <1>4, <1>11
  <2>2. /\ IsFiniteSet(Outstanding(3, Recorded)')
        /\ Cardinality(Outstanding(3, Recorded)') = Cardinality(Outstanding(3, Recorded))
    BY <1>7, <1>8, <2>1, Zenon
  <2>3. ASSUME NEW s \in Recorded
        PROVE  /\ IsFiniteSet(Records(ofGen', KeysOf(s))) /\ IsFiniteSet(Outstanding(2, {s})')
               /\ Cardinality(Records(ofGen', KeysOf(s))) = ofService'[s] + Cardinality(Outstanding(2, {s})')
               /\ ofService[s] <= ofService'[s] /\ ofService[s] \in Nat /\ ofService'[s] \in Nat
    <3>1. CASE s = k[1]
      <4>1. /\ IsFiniteSet(Outstanding(2, {s})') /\ Cardinality(Outstanding(2, {s})) > 0
            /\ Cardinality(Outstanding(2, {s})') = Cardinality(Outstanding(2, {s})) - 1
        BY <1>7, <1>9, <2>1, <3>1, Zenon
      <4>2. ofService[s] \in Nat /\ ofService'[s] = ofService[s] + 1
        BY <1>6, <1>11, <3>1, Zenon
      <4>3. Agree(Cardinality(Records(ofGen, KeysOf(s))), ofService[s], Cardinality(Outstanding(2, {s})))
        BY <1>9, <4>2, Zenon DEF Agree
      <4>4. Agree(Cardinality(Records(ofGen, KeysOf(s))), ofService[s] + 1, Cardinality(Outstanding(2, {s})) - 1)
        BY <4>1, <4>3, OneMore, Zenon
      <4>5. ofService[s] <= ofService[s] + 1
        BY <4>2, OneLarger, Zenon
      <4> QED BY <1>9, <1>11, <4>1, <4>2, <4>4, <4>5, Zenon DEF Agree
    <3>2. CASE s # k[1]
      <4>1. /\ IsFiniteSet(Outstanding(2, {s})')
            /\ Cardinality(Outstanding(2, {s})') = Cardinality(Outstanding(2, {s}))
        BY <1>7, <1>9, <2>1, <3>2, Zenon
      <4>2. ofService'[s] = ofService[s] /\ ofService[s] \in Nat
        BY <1>6, <1>11, <3>2, Zenon
      <4>3. ofService[s] <= ofService[s]
        BY <4>2
      <4> QED BY <1>9, <1>11, <4>1, <4>2, <4>3, Zenon
    <3> QED BY <3>1, <3>2, Zenon
  <2>4. LevelsAgree'
    BY <1>1, <1>8, <1>11, <2>2, <2>3, Zenon DEF LevelsAgree
  <2>5. SnapCausal'
    <3>1. SnapCausal /\ ToCount' = ToCount
      BY <1>1, <1>11, Zenon DEF StoreInv, ToCount
    <3>2. snap.stage = "services" => \A s \in Recorded : snap.service[s] <= ofService'[s]
      <4> SUFFICES ASSUME snap.stage = "services", NEW s \in Recorded PROVE snap.service[s] <= ofService'[s]
        BY Zenon
      <4>1. snap.service[s] <= ofService[s]
        BY <3>1, Zenon DEF SnapCausal
      <4>2. snap.service[s] \in Nat
        BY <3>1, SnapShape, Zenon
      <4>3. ofService[s] <= ofService'[s] /\ ofService[s] \in Nat /\ ofService'[s] \in Nat
        BY <2>3, Zenon
      <4> QED BY <4>1, <4>2, <4>3, StillBounds, Zenon
    <3> QED BY <1>1, <3>1, <3>2, Zenon DEF SnapCausal
  <2> QED BY <2>4, <2>5, RecordKeeps, Zenon DEF StoreInv
<1>12. CASE writing[w] = Call(3, k, b) /\ c = (IF b THEN Call(4, k, b) ELSE Idle)
            /\ ofLane' = ofLane + 1 /\ UNCHANGED <<ofGen, ofService>>
  <2>1. \A S : /\ ~Owes(writing[w], 2, S) /\ ~Owes(c, 2, S)
               /\ (Owes(writing[w], 3, S) <=> k[1] \in S) /\ ~Owes(c, 3, S)
    BY <1>4, <1>5, <1>12
  <2>2. /\ IsFiniteSet(Outstanding(3, Recorded)') /\ Cardinality(Outstanding(3, Recorded)) > 0
        /\ Cardinality(Outstanding(3, Recorded)') = Cardinality(Outstanding(3, Recorded)) - 1
    BY <1>3, <1>7, <1>8, <2>1, Zenon
  <2>3. Cardinality(Records(ofGen, Keys)) + probes' = ofLane' + Cardinality(Outstanding(3, Recorded)')
    <3>1. AgreeBeside(Cardinality(Records(ofGen, Keys)), probes, ofLane, Cardinality(Outstanding(3, Recorded)))
      BY <1>6, <1>8, Zenon DEF AgreeBeside
    <3>2. AgreeBeside(Cardinality(Records(ofGen, Keys)), probes, ofLane + 1,
                      Cardinality(Outstanding(3, Recorded)) - 1)
      BY <3>1, OneMoreBeside, <2>2, Zenon
    <3> QED BY <1>1, <1>12, <2>2, <3>2, Zenon DEF AgreeBeside
  <2>4. LevelsAgree'
    BY <1>7, <1>8, <1>9, <1>12, <2>1, <2>2, <2>3, Zenon DEF LevelsAgree
  <2>5. SnapCausal'
    BY <1>1, <1>12, Zenon DEF StoreInv, SnapCausal, ToCount
  <2> QED BY <2>4, <2>5, RecordKeeps, Zenon DEF StoreInv
<1> QED BY <1>2, <1>10, <1>11, <1>12, Zenon

\* A step of a snapshot moves nothing of the store.
LEMMA SnapMoves ==
  ASSUME StoreInv, SnapCausal',
         UNCHANGED <<current, kept, ofGen, ofService, ofLane, probes, writing, failures, pushed>>
  PROVE  StoreInv'
<1>1. StoreType' /\ Unregistered' /\ KeptNewest' /\ FailuresNewest'
  BY Zenon DEF StoreInv, StoreType, Unregistered, KeptNewest, FailuresNewest
<1>2. LevelsAgree'
  <2>1. \A n, S : Outstanding(n, S)' = Outstanding(n, S)
    BY Zenon DEF Outstanding
  <2> QED BY <2>1, Zenon DEF StoreInv, LevelsAgree
<1> QED BY <1>1, <1>2, Zenon DEF StoreInv

\* The snapshot begins with the services.
LEMMA SnapBeginStep ==
  ASSUME StoreInv, SnapBegin
  PROVE  StoreInv'
<1>1. /\ snap' = [stage |-> "services", todo |-> {s \in Recorded : current[s] > 0},
                  service |-> [s \in Recorded |-> 0], gen |-> [k \in Keys |-> 0],
                  lost |-> {}, lane |-> 0]
      /\ UNCHANGED <<current, kept, ofGen, ofService, ofLane, probes, writing, failures, pushed>>
  BY Zenon DEF SnapBegin
<1>2. /\ snap' \in Snapshots /\ snap'.stage = "services" /\ snap'.gen = [k \in Keys |-> 0]
      /\ \A s \in Recorded : snap'.service[s] = 0
  BY <1>1, Zenon DEF Snapshots
<1>3. \A s \in Recorded : ofService'[s] \in Nat
  BY <1>1, Zenon DEF StoreInv, StoreType
<1>4. SnapCausal'
  <2>1. \A s \in Recorded : snap'.service[s] <= ofService'[s]
    <3> SUFFICES ASSUME NEW s \in Recorded PROVE snap'.service[s] <= ofService'[s]
      BY Zenon
    <3>1. snap'.service[s] = 0 /\ ofService'[s] \in Nat
      BY <1>2, <1>3, Zenon
    <3> QED BY <3>1
  <2>2. snap'.stage \notin {"generations", "taken"}
    BY <1>2
  <2> QED BY <1>2, <2>1, <2>2, Zenon DEF SnapCausal
<1> QED BY <1>1, <1>4, SnapMoves, Zenon

\* It reads a service's numbers.
LEMMA SnapServiceStep ==
  ASSUME StoreInv, NEW s \in Recorded, SnapService(s)
  PROVE  StoreInv'
<1>1. /\ snap.stage = "services" /\ snap' = [snap EXCEPT !.todo = @ \ {s}, !.service[s] = ofService[s]]
      /\ UNCHANGED <<current, kept, ofGen, ofService, ofLane, probes, writing, failures, pushed>>
  BY Zenon DEF SnapService
<1>2. SnapCausal /\ snap.stage # "none" /\ ofService \in [Recorded -> Nat]
  BY <1>1, Zenon DEF StoreInv, StoreType
<1>3. /\ snap \in Snapshots /\ snap.todo \in SUBSET (Recorded \cup Keys)
      /\ snap.service \in [Recorded -> Nat]
  BY <1>2, SnapShape, Zenon
<1>4. /\ snap' \in Snapshots /\ snap'.stage = "services" /\ snap'.gen = snap.gen
      /\ snap'.service = [snap.service EXCEPT ![s] = ofService[s]]
  BY <1>1, <1>2, <1>3, Zenon DEF Snapshots
<1>5. snap.gen = [k \in Keys |-> 0] /\ \A t \in Recorded : snap.service[t] <= ofService[t]
  BY <1>1, <1>2, Zenon DEF SnapCausal
<1>6. \A t \in Recorded : snap'.service[t] <= ofService'[t]
  BY <1>1, <1>2, <1>3, <1>4, <1>5
<1>7. SnapCausal'
  BY <1>4, <1>5, <1>6, Zenon DEF SnapCausal
<1> QED BY <1>1, <1>7, SnapMoves, Zenon

\* It has the services and turns to the generations in the map.  Where none of a
\* service's is lost, the ones in the map count all its records, those the service
\* counted among them.
LEMMA SnapGenerationsStep ==
  ASSUME StoreInv, SnapGenerations
  PROVE  StoreInv'
<1> DEFINE gone == {k \in Keys : k[2] <= current[k[1]]} \ kept
<1>1. /\ snap.stage = "services"
      /\ snap' = [snap EXCEPT !.stage = "generations", !.todo = kept, !.lost = gone]
      /\ UNCHANGED <<current, kept, ofGen, ofService, ofLane, probes, writing, failures, pushed>>
  BY Zenon DEF SnapGenerations
<1>2. /\ SnapCausal /\ snap.stage # "none" /\ ofService \in [Recorded -> Nat]
      /\ ofGen \in [Keys -> Nat] /\ current \in [Recorded -> 0..MaxGenerations] /\ kept \subseteq Keys
  BY <1>1, Zenon DEF StoreInv, StoreType, KeptNewest
<1>3. snap \in Snapshots /\ snap.service \in [Recorded -> Nat]
  BY <1>2, SnapShape, Zenon
<1>4. /\ snap' \in Snapshots /\ snap'.stage = "generations" /\ snap'.gen = snap.gen
      /\ snap'.service = snap.service /\ snap'.todo = kept /\ snap'.lost = gone
  BY <1>1, <1>2, <1>3, Zenon DEF Snapshots
<1>5. snap.gen = [k \in Keys |-> 0] /\ \A t \in Recorded : snap.service[t] <= ofService[t]
  BY <1>1, <1>2, Zenon DEF SnapCausal
<1>6. ASSUME NEW s \in Recorded, gone \cap KeysOf(s) = {}
      PROVE  /\ IsFiniteSet(Records(ToCount', KeysOf(s)))
             /\ snap.service[s] <= Cardinality(Records(ToCount', KeysOf(s)))
  <2>1. ASSUME NEW k \in KeysOf(s) PROVE ToCount'[k] = ofGen[k]
    <3>1. k \in Keys /\ k[2] \in Nat /\ k[1] \in Recorded /\ current[k[1]] \in Nat
      BY <1>2 DEF KeysOf, Keys
    <3>2. ToCount'[k] = IF k \in kept THEN ofGen[k] ELSE 0
      BY <1>1, <1>4, <1>5, <3>1 DEF ToCount
    <3>3. k \notin kept => ~(k[2] <= current[k[1]])
      BY <1>6, <3>1, Zenon
    <3>4. k \notin kept => ofGen[k] = 0
      <4>1. k \notin kept => k[2] > current[k[1]]
        BY <3>1, <3>3
      <4> QED BY <3>1, <4>1, Zenon DEF StoreInv, Unregistered
    <3> QED BY <3>2, <3>4, Zenon
  <2>2. Records(ToCount', KeysOf(s)) = Records(ofGen, KeysOf(s))
    BY <2>1, RecordsSame, Zenon
  <2>3. /\ IsFiniteSet(Records(ofGen, KeysOf(s))) /\ IsFiniteSet(Outstanding(2, {s}))
        /\ Cardinality(Records(ofGen, KeysOf(s))) = ofService[s] + Cardinality(Outstanding(2, {s}))
    BY Zenon DEF StoreInv, LevelsAgree
  <2>4. Cardinality(Outstanding(2, {s})) \in Nat
    BY <2>3, FS_CardinalityType, Zenon
  <2>5. snap.service[s] \in Nat /\ ofService[s] \in Nat /\ snap.service[s] <= ofService[s]
    BY <1>2, <1>3, <1>5, Zenon
  <2>6. snap.service[s] <= Cardinality(Records(ofGen, KeysOf(s)))
    BY <2>3, <2>4, <2>5
  <2> QED BY <2>2, <2>3, <2>6, Zenon
<1>7. SnapCausal'
  <2> HIDE DEF gone
  <2> QED BY <1>4, <1>6, Zenon DEF SnapCausal
<1> QED BY <1>1, <1>7, SnapMoves, Zenon

\* It reads a generation's numbers, or finds that it was evicted.
LEMMA SnapGenerationStep ==
  ASSUME StoreInv, NEW k \in Keys, SnapGeneration(k)
  PROVE  StoreInv'
<1>1. /\ snap.stage = "generations" /\ k \in snap.todo
      /\ UNCHANGED <<current, kept, ofGen, ofService, ofLane, probes, writing, failures, pushed>>
  BY Zenon DEF SnapGeneration
<1>2. SnapCausal /\ snap.stage # "none" /\ ofGen \in [Keys -> Nat]
  BY <1>1, Zenon DEF StoreInv, StoreType
<1>3. /\ snap \in Snapshots /\ snap.gen \in [Keys -> Nat]
      /\ snap.todo \in SUBSET (Recorded \cup Keys) /\ snap.lost \in SUBSET Keys
  BY <1>2, SnapShape, Zenon
<1>4. /\ snap' \in Snapshots /\ snap'.stage = "generations" /\ snap'.service = snap.service
      /\ snap'.todo = snap.todo \ {k}
      /\ \/ k \in kept /\ snap'.gen = [snap.gen EXCEPT ![k] = ofGen[k]] /\ snap'.lost = snap.lost
         \/ k \notin kept /\ snap'.gen = snap.gen /\ snap'.lost = snap.lost \cup {k}
  <2>1. CASE k \in kept
    <3>1. snap' = [snap EXCEPT !.todo = @ \ {k}, !.gen[k] = ofGen[k]]
      BY <2>1, Zenon DEF SnapGeneration
    <3> QED BY <1>1, <1>2, <1>3, <2>1, <3>1, Zenon DEF Snapshots
  <2>2. CASE k \notin kept
    <3>1. snap' = [snap EXCEPT !.todo = @ \ {k}, !.lost = @ \cup {k}]
      BY <2>2, Zenon DEF SnapGeneration
    <3> QED BY <1>1, <1>3, <2>2, <3>1, Zenon DEF Snapshots
  <2> QED BY <2>1, <2>2, Zenon
<1>5. ASSUME NEW s \in Recorded, snap'.lost \cap KeysOf(s) = {}
      PROVE  /\ IsFiniteSet(Records(ToCount', KeysOf(s)))
             /\ snap.service[s] <= Cardinality(Records(ToCount', KeysOf(s)))
  <2>1. snap.lost \cap KeysOf(s) = {} /\ (k \notin kept => k \notin KeysOf(s))
    BY <1>4, <1>5, Zenon
  <2>2. ASSUME NEW j \in KeysOf(s) PROVE ToCount'[j] = ToCount[j]
    <3>1. j \in Keys
      BY Zenon DEF KeysOf
    <3>2. /\ ToCount[j] = IF j \in snap.todo THEN ofGen[j] ELSE snap.gen[j]
          /\ ToCount'[j] = IF j \in snap'.todo THEN ofGen[j] ELSE snap'.gen[j]
      BY <1>1, <3>1, Zenon DEF ToCount
    <3>3. j # k => snap'.gen[j] = snap.gen[j]
      BY <1>3, <1>4, <3>1, Zenon
    <3>4. j = k => snap'.gen[j] = ofGen[j]
      BY <1>3, <1>4, <2>1, Zenon
    <3> QED BY <1>1, <1>4, <3>2, <3>3, <3>4, Zenon
  <2>3. Records(ToCount', KeysOf(s)) = Records(ToCount, KeysOf(s))
    BY <2>2, RecordsSame, Zenon
  <2>4. /\ IsFiniteSet(Records(ToCount, KeysOf(s)))
        /\ snap.service[s] <= Cardinality(Records(ToCount, KeysOf(s)))
    BY <1>1, <1>2, <2>1, Zenon DEF SnapCausal
  <2> QED BY <2>3, <2>4, Zenon
<1>6. SnapCausal'
  BY <1>4, <1>5, Zenon DEF SnapCausal
<1> QED BY <1>1, <1>6, SnapMoves, Zenon

\* It has the generations and reads the lanes.
LEMMA SnapLaneStep ==
  ASSUME StoreInv, SnapLane
  PROVE  StoreInv'
<1>1. /\ snap.stage = "generations" /\ snap.todo = {}
      /\ snap' = [snap EXCEPT !.stage = "taken", !.lane = ofLane]
      /\ UNCHANGED <<current, kept, ofGen, ofService, ofLane, probes, writing, failures, pushed>>
  BY Zenon DEF SnapLane
<1>2. SnapCausal /\ snap.stage # "none" /\ ofLane \in Nat
  BY <1>1, Zenon DEF StoreInv, StoreType
<1>3. snap \in Snapshots
  BY <1>2, SnapShape, Zenon
<1>4. /\ snap' \in Snapshots /\ snap'.stage = "taken" /\ snap'.service = snap.service
      /\ snap'.todo = snap.todo /\ snap'.gen = snap.gen /\ snap'.lost = snap.lost
  BY <1>1, <1>2, <1>3, Zenon DEF Snapshots
<1>5. ToCount' = ToCount
  BY <1>1, <1>4 DEF ToCount
<1>6. \A s \in Recorded : snap.lost \cap KeysOf(s) = {} =>
         /\ IsFiniteSet(Records(ToCount, KeysOf(s)))
         /\ snap.service[s] <= Cardinality(Records(ToCount, KeysOf(s)))
  BY <1>1, <1>2, Zenon DEF SnapCausal
<1>7. SnapCausal'
  BY <1>1, <1>4, <1>5, <1>6, Zenon DEF SnapCausal
<1> QED BY <1>1, <1>7, SnapMoves, Zenon

\* Every step keeps the store's invariant.
LEMMA StoreStep == StoreInv /\ [DNext]_dvars => StoreInv'
<1> SUFFICES ASSUME StoreInv, [DNext]_dvars PROVE StoreInv'
  BY Zenon
<1>1. ASSUME NEW s \in Recorded, Register(s) PROVE StoreInv'
  BY <1>1, RegisterStep, Zenon
<1>2. ASSUME NEW s \in Recorded, SnapService(s) PROVE StoreInv'
  BY <1>2, SnapServiceStep, Zenon
<1>3. ASSUME NEW w \in Writers, Record(w) PROVE StoreInv'
  BY <1>3, RecordStep, Zenon
<1>4. ASSUME NEW w \in Writers, ToStore(w) PROVE StoreInv'
  BY <1>4, ToStoreStep, Zenon
<1>5. ASSUME NEW w \in Writers, NEW k \in Keys, NEW f \in BOOLEAN, Begin(w, k, f) PROVE StoreInv'
  BY <1>5, BeginStep, Zenon
<1>6. ASSUME NEW k \in Keys, SnapGeneration(k) PROVE StoreInv'
  BY <1>6, SnapGenerationStep, Zenon
<1>7. CASE LaneProbe
  BY <1>7, LaneProbeStep, Zenon
<1>8. CASE SnapBegin
  BY <1>8, SnapBeginStep, Zenon
<1>9. CASE SnapGenerations
  BY <1>9, SnapGenerationsStep, Zenon
<1>10. CASE SnapLane
  BY <1>10, SnapLaneStep, Zenon
<1>11. CASE UNCHANGED dvars
  <2>1. UNCHANGED <<current, kept, ofGen, ofService, ofLane, probes, writing, failures, pushed, snap>>
    BY <1>11, Zenon DEF dvars
  <2>2. SnapCausal'
    BY <2>1, Zenon DEF StoreInv, SnapCausal, ToCount
  <2> QED BY <2>1, <2>2, SnapMoves, Zenon
<1> QED
  BY <1>1, <1>2, <1>3, <1>4, <1>5, <1>6, <1>7, <1>8, <1>9, <1>10, <1>11, Zenon DEF DNext

\* Every record of a generation's handle (GenerationDiagnosticsHandle::record_*) reaches
\* the generation, the service and the lane once each, whatever register_generation
\* evicts meanwhile; a snapshot counts for a service nothing that it does not count for
\* the service's generations, unless one of them was evicted; the generations and the
\* provider failures that are kept are the newest.
THEOREM StoreKeepsCount == DSpec => []StoreConsistent
<1>1. StoreInv => StoreConsistent
  <2> SUFFICES ASSUME StoreInv PROVE StoreConsistent
    BY Zenon
  <2>1. ASSUME NEW s \in Recorded, snap.stage = "taken", snap.lost \cap KeysOf(s) = {}
        PROVE  snap.service[s] <= Cardinality(Records(snap.gen, KeysOf(s)))
    <3>1. SnapCausal /\ snap.stage # "none" /\ snap.todo = {}
      BY <2>1, Zenon DEF StoreInv, SnapCausal
    <3>2. \A k \in KeysOf(s) : ToCount[k] = snap.gen[k]
      BY <3>1, Zenon DEF ToCount, KeysOf
    <3>3. Records(ToCount, KeysOf(s)) = Records(snap.gen, KeysOf(s))
      BY <3>2, RecordsSame, Zenon
    <3>4. snap.service[s] <= Cardinality(Records(ToCount, KeysOf(s)))
      BY <2>1, <3>1, Zenon DEF SnapCausal
    <3> QED BY <3>3, <3>4, Zenon
  <2>2. ASSUME NEW s \in Recorded
        PROVE  {k[2] : k \in kept \cap KeysOf(s)} =
                 {n \in 1..current[s] : n > current[s] - RetainedGenerations}
    <3>1. current[s] \in 0..MaxGenerations
      BY Zenon DEF StoreInv, StoreType
    <3>2. \A k : k \in kept \cap KeysOf(s) <=>
            k \in Keys /\ k[1] = s /\ k[2] <= current[s] /\ k[2] > current[s] - RetainedGenerations
      BY Zenon DEF StoreInv, KeptNewest, KeysOf
    <3>3. \A k \in Keys : k[2] \in 1..MaxGenerations
      BY Zenon DEF Keys
    <3>4. \A n \in 1..MaxGenerations : <<s, n>> \in Keys /\ <<s, n>>[1] = s /\ <<s, n>>[2] = n
      BY Zenon DEF Keys
    <3>5. ASSUME NEW n \in {k[2] : k \in kept \cap KeysOf(s)}
          PROVE  n \in {m \in 1..current[s] : m > current[s] - RetainedGenerations}
      BY <3>1, <3>2, <3>3, StoreAssumption
    <3>6. ASSUME NEW n \in {m \in 1..current[s] : m > current[s] - RetainedGenerations}
          PROVE  n \in {k[2] : k \in kept \cap KeysOf(s)}
      <4>1. n \in 1..MaxGenerations
        BY <3>1, StoreAssumption
      <4>2. <<s, n>> \in kept \cap KeysOf(s) /\ <<s, n>>[2] = n
        BY <3>2, <3>4, <4>1
      <4> QED BY <4>2, Zenon
    <3> QED BY <3>5, <3>6, Zenon
  <2>3. /\ Len(failures) <= RetainedFailures
        /\ \A i \in DOMAIN failures : failures[i] = pushed - Len(failures) + i
    BY DEF StoreInv, StoreType, FailuresNewest, Ring
  <2>4. LevelsAgree
    BY Zenon DEF StoreInv
  <2> QED BY <2>1, <2>2, <2>3, <2>4, Zenon DEF StoreConsistent, LevelsAgree
<1> QED BY <1>1, StoreInit, StoreStep, PTL DEF DSpec

=============================================================================
