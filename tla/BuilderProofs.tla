--------------------------- MODULE BuilderProofs ----------------------------
(***************************************************************************)
(* What is fixed before a daemon runs: the policy builders (PolicyBuilders), *)
(* the wrapper that #[service] and #[trigger] emit (HandlerMacro), the       *)
(* constructors of #[provider] (ProviderMacro) and the daemon that its       *)
(* builder makes of the service registry (DaemonBuilder).                    *)
(***************************************************************************)
EXTENDS PolicyBuilders, HandlerMacro, ProviderMacro, DaemonBuilder, FiniteSetTheorems, TLAPS

-----------------------------------------------------------------------------
(* The policy builders                                                       *)

RestartPolicies == [multiplier : Int, jitter : Int]
Overlays == [reason : {"blank", "text"}, ttl : Nat, limit : SUBSET Nat, timeout : SUBSET Nat,
             retry : SUBSET RestartPolicies]

PolicyInv ==
  /\ asked \in [ScalingFields -> Nat] /\ scaling \in [ScalingFields -> Nat]
  /\ \A f \in ScalingFields : scaling[f] = PMax(asked[f], Least[f])
  /\ restart \in RestartPolicies /\ written \in BOOLEAN
  /\ ~written => ~RetryRefused(restart)
  /\ overlay \in Overlays

\* sanitized_multiplier and sanitized_jitter_factor give what validate_retry_policy
\* accepts, and leave alone what it accepts.
LEMMA Sanitizing ==
  ASSUME NEW x \in Int
  PROVE  /\ SanitizedMultiplier(x) \in Int /\ SanitizedJitter(x) \in Int
         /\ Finite(SanitizedMultiplier(x)) /\ SanitizedMultiplier(x) > 0
         /\ Finite(SanitizedJitter(x)) /\ SanitizedJitter(x) \in 0..One
         /\ Finite(x) /\ x > 0 => SanitizedMultiplier(x) = x
         /\ Finite(x) /\ x \in 0..One => SanitizedJitter(x) = x
BY DEF SanitizedMultiplier, SanitizedJitter, Finite, NaN, Inf, One, PMin, PMax

\* A setter of ScalingPolicyBuilder keeps the clamp of its field.
LEMMA SetScalingStep ==
  ASSUME PolicyInv, SetScaling
  PROVE  PolicyInv'
<1>1. PICK f \in ScalingFields, n \in Counts :
        /\ asked' = [asked EXCEPT ![f] = n]
        /\ scaling' = [scaling EXCEPT ![f] = PMax(n, Least[f])]
        /\ UNCHANGED <<restart, written, overlay>>
  BY Zenon DEF SetScaling
<1>2. n \in Nat /\ Least[f] \in Nat /\ PMax(n, Least[f]) \in Nat
  BY PolicyAssumption DEF Least, ScalingFields, PMax
<1>3. /\ asked' \in [ScalingFields -> Nat] /\ scaling' \in [ScalingFields -> Nat]
      /\ \A g \in ScalingFields : scaling'[g] = PMax(asked'[g], Least[g])
  BY <1>1, <1>2, Zenon DEF PolicyInv
<1> QED BY <1>1, <1>3, Zenon DEF PolicyInv, RetryRefused

\* A setter of RestartPolicyBuilder keeps a policy that an overlay may carry.
LEMMA SetRestartStep ==
  ASSUME PolicyInv, SetRestart
  PROVE  PolicyInv'
<1>1. PICK x \in Floats :
        /\ \/ restart' = [restart EXCEPT !.multiplier = SanitizedMultiplier(x)]
           \/ restart' = [restart EXCEPT !.jitter = SanitizedJitter(x)]
        /\ UNCHANGED <<asked, scaling, written, overlay>>
  BY Zenon DEF SetRestart
<1>2. x \in Int
  BY PolicyAssumption DEF Floats, NaN, Inf
<1>3. PICK m \in Int, j \in Int :
        /\ m = SanitizedMultiplier(x) /\ j = SanitizedJitter(x)
        /\ Finite(m) /\ m > 0 /\ Finite(j) /\ j \in 0..One
  BY <1>2, Sanitizing, Zenon
<1>4. restart' \in RestartPolicies /\ (~RetryRefused(restart) => ~RetryRefused(restart'))
  BY <1>1, <1>3 DEF PolicyInv, RestartPolicies, RetryRefused
<1> QED BY <1>1, <1>4, Zenon DEF PolicyInv, RetryRefused

\* TriggerPolicyOverlay::builder starts from an overlay that overlays nothing.
LEMMA NoOverlayType == NoOverlay \in Overlays
<1>1. 0 \in Nat /\ {} \subseteq Nat /\ {} \subseteq RestartPolicies
  BY Zenon
<1> QED BY <1>1, Zenon DEF NoOverlay, Overlays

\* A field written past the builder, and a setter of the overlay builder.
LEMMA OtherPolicySteps ==
  ASSUME PolicyInv, WriteRestart \/ SetOverlay
  PROVE  PolicyInv'
<1>1. CASE WriteRestart
  <2>1. PICK x \in Floats, f \in {"multiplier", "jitter"} : restart' = [restart EXCEPT ![f] = x]
    BY <1>1, Zenon DEF WriteRestart
  <2>2. x \in Int
    BY PolicyAssumption DEF Floats, NaN, Inf
  <2>3. restart' \in RestartPolicies
    BY <2>1, <2>2, Zenon DEF PolicyInv, RestartPolicies
  <2> QED BY <1>1, <2>3, Zenon DEF WriteRestart, PolicyInv
<1>2. CASE SetOverlay
  <2>1. overlay' \in Overlays
    <3>1. CASE \E r \in {"blank", "text"}, t \in {0, 1} :
                 overlay' = [NoOverlay EXCEPT !.reason = r, !.ttl = t]
      <4>1. PICK o \in Overlays : o = NoOverlay
        BY NoOverlayType, Zenon
      <4>2. PICK r \in {"blank", "text"}, t \in Nat : overlay' = [o EXCEPT !.reason = r, !.ttl = t]
        BY <3>1, <4>1, Zenon
      <4> QED BY <4>2, Zenon DEF Overlays
    <3>2. CASE \E n \in Counts : overlay' = [overlay EXCEPT !.limit = {n}]
      BY <3>2, PolicyAssumption DEF PolicyInv, Overlays
    <3>3. CASE \E t \in {0, 1} : overlay' = [overlay EXCEPT !.timeout = {t}]
      BY <3>3 DEF PolicyInv, Overlays
    <3>4. CASE overlay' = [overlay EXCEPT !.retry = {restart}]
      BY <3>4, Zenon DEF PolicyInv, Overlays
    <3> QED BY <1>2, <3>1, <3>2, <3>3, <3>4, Zenon DEF SetOverlay
  <2> QED BY <1>2, <2>1, Zenon DEF SetOverlay, PolicyInv, RetryRefused
<1> QED BY <1>1, <1>2, Zenon

\* Builders, validation and use agree, for every sequence of setter calls: each setter of
\* ScalingPolicyBuilder clamps its own field only, so what is built depends on what was
\* asked last of each and not on the order.
THEOREM PoliciesDoAgree == PSpec => []PoliciesAgree
<1>1. PInit => PolicyInv
  <2> SUFFICES ASSUME PInit PROVE PolicyInv
    BY Zenon
  <2>1. asked \in [ScalingFields -> Nat] /\ scaling \in [ScalingFields -> Nat]
    BY DEF PInit, ScalingDefault, ScalingFields
  <2>2. \A f \in ScalingFields : scaling[f] = PMax(asked[f], Least[f])
    BY DEF PInit, ScalingDefault, ScalingFields, Least, PMax
  <2>3. restart \in RestartPolicies
    <3>1. restart = [multiplier |-> 4, jitter |-> 0]
      BY DEF PInit, One
    <3> QED BY <3>1 DEF RestartPolicies
  <2>6. written \in BOOLEAN
    BY Zenon DEF PInit
  <2>5. overlay \in Overlays
    BY NoOverlayType, Zenon DEF PInit
  <2>4. ~RetryRefused(restart)
    BY DEF PInit, RetryRefused, Finite, NaN, Inf, One
  <2> QED BY <2>1, <2>2, <2>3, <2>4, <2>5, <2>6, Zenon DEF PolicyInv
<1>2. PolicyInv /\ [PNext]_pvars => PolicyInv'
  <2> SUFFICES ASSUME PolicyInv, [PNext]_pvars PROVE PolicyInv'
    BY Zenon
  <2>1. CASE UNCHANGED pvars
    BY <2>1, Zenon DEF pvars, PolicyInv, RetryRefused
  <2> QED BY <2>1, SetScalingStep, SetRestartStep, OtherPolicySteps, Zenon DEF PNext
<1>3. PolicyInv => PoliciesAgree
  <2> SUFFICES ASSUME PolicyInv PROVE PoliciesAgree
    BY Zenon
  <2>1. PICK i \in Nat, m \in Nat, k \in Nat, h \in Nat :
          /\ asked.initial = i /\ asked.max = m /\ asked.factor = k /\ asked.threshold = h
          /\ scaling.initial = PMax(i, 1) /\ scaling.max = PMax(m, 1)
          /\ scaling.factor = PMax(k, 2) /\ scaling.threshold = PMax(h, 1)
    BY Zenon DEF PolicyInv, ScalingFields, Least
  <2> DEFINE b == BuildScaling(scaling)
  <2>2. /\ b \in [ScalingFields -> Nat] /\ b.initial = PMin(PMax(i, 1), PMax(m, 1))
        /\ b.max = PMax(m, 1) /\ b.factor = PMax(k, 2) /\ b.threshold = PMax(h, 1)
    <3>1. PICK n \in Nat : n = PMin(PMax(i, 1), PMax(m, 1))
      BY Zenon DEF PMin, PMax
    <3>2. b = [scaling EXCEPT !["initial"] = n]
      BY <2>1, <3>1, Zenon DEF BuildScaling
    <3>3. b \in [ScalingFields -> Nat] /\ b["initial"] = n
      BY <3>2, Zenon DEF PolicyInv, ScalingFields
    <3>4. /\ b["max"] = scaling["max"] /\ b["factor"] = scaling["factor"]
          /\ b["threshold"] = scaling["threshold"]
      BY <3>2, Zenon DEF PolicyInv, ScalingFields
    <3> QED BY <2>1, <3>1, <3>3, <3>4, Zenon
  <2> HIDE DEF b
  <2>3. TryNew(b)
    BY <2>2 DEF TryNew, PMin, PMax
  <2>4. TryNew(asked) => \A f \in ScalingFields : b[f] = asked[f]
    BY <2>1, <2>2 DEF TryNew, PMin, PMax, ScalingFields
  <2>5. TryNew(asked) => b = asked
    BY <2>2, <2>4 DEF PolicyInv
  <2>6. ASSUME ValidateShape(overlay) = "ok", NEW policy \in overlay.retry
        PROVE  Used(policy) = policy
    <3>1. policy \in RestartPolicies
      BY Zenon DEF PolicyInv, Overlays
    <3>2. ~RetryRefused(policy)
      BY <2>6, Zenon DEF ValidateShape
    <3>3. Used(policy).multiplier = policy.multiplier /\ Used(policy).jitter = policy.jitter
      BY <3>1, <3>2, Sanitizing DEF RetryRefused, Used, RestartPolicies
    <3>4. Used(policy) \in RestartPolicies
      BY <3>1, Sanitizing, Zenon DEF Used, RestartPolicies
    <3> QED BY <3>1, <3>3, <3>4 DEF RestartPolicies
  <2> QED BY <2>3, <2>5, <2>6, Zenon DEF PoliciesAgree, PolicyInv, b
<1> QED BY <1>1, <1>2, <1>3, PTL DEF PSpec

-----------------------------------------------------------------------------
(* The wrapper of a handler                                                  *)

Handlers == [kind : {"service", "trigger"}, watch : BOOLEAN, params : Seq(Params),
              args : Seq(AttrArgs), vis : Visibilities, allow : AllowLists]
Extractions == [resolve : Seq(Nat), call : Seq(Nat), entries : Seq(Nat), watch : Seq(Nat),
                payload : Nat]

PayloadAt(n) == IsPayload(item.params[n])

\* What extract_params has gathered once the first k parameters are processed.
Gathered(k) ==
  /\ Len(extracted.call) = k /\ \A n \in 1..k : extracted.call[n] = n
  /\ extracted.watch = extracted.resolve
  /\ \A n \in 1..Len(extracted.resolve) : extracted.resolve[n] # 0
  /\ \A n \in 1..k : PayloadAt(n) <=> n = extracted.payload
  /\ extracted.payload # 0 => item.kind = "trigger" /\ extracted.payload \in 1..k

\* The expansion of a function whose parameters have been gathered.
Expansion ==
  /\ emitted.resolves = IF item.kind = "service" THEN extracted.resolve
                        ELSE <<0>> \o extracted.resolve
  /\ emitted.watches = IF item.watch THEN ElemsOf(extracted.resolve) \cup {0}
                       ELSE ElemsOf(extracted.resolve)
  /\ emitted.vis = ScopeInnerVisibility(item.vis) /\ emitted.allow = Cleaned(item.allow)

BadArgument == \E n \in 1..Len(item.args) : item.args[n] \in {"other", "NoSuchLane"}

\* The parameters the wrapper cannot supply: a payload of a service, a second one of a
\* trigger.
BadPayload ==
  \/ item.kind = "service" /\ \E n \in 1..Len(item.params) : PayloadAt(n)
  \/ \E m, n \in 1..Len(item.params) : m # n /\ PayloadAt(m) /\ PayloadAt(n)

HandlerInv ==
  /\ item \in Handlers /\ extracted \in Extractions
  /\ item.watch => item.kind = "trigger"
  /\ stage \in {"attr", "params", "emit", "done", "error"}
  /\ stage = "attr" =>
       /\ left \in Seq(AttrArgs) /\ Gathered(0)
       /\ \A n \in 1..Len(left) : \E m \in 1..Len(item.args) : left[n] = item.args[m]
  /\ stage = "params" =>
       /\ left \in Seq(Params) /\ Len(left) <= Len(item.params)
       /\ \A n \in 1..Len(left) : left[n] = item.params[Len(item.params) - Len(left) + n]
       /\ Gathered(Len(item.params) - Len(left))
  /\ stage \in {"emit", "done"} => Gathered(Len(item.params))
  /\ stage = "done" => Expansion
  /\ stage = "error" => BadArgument \/ BadPayload

\* ParseAttr: a key is taken, an unknown one refused, or the parameters begin.
LEMMA ParseAttrStep ==
  ASSUME HandlerInv, ParseAttr
  PROVE  HandlerInv'
<1>1. /\ stage = "attr" /\ UNCHANGED <<item, extracted, emitted>>
      /\ item \in Handlers /\ extracted \in Extractions /\ (item.watch => item.kind = "trigger")
      /\ left \in Seq(AttrArgs) /\ Gathered(0)
      /\ \A n \in 1..Len(left) : \E m \in 1..Len(item.args) : left[n] = item.args[m]
  BY Zenon DEF ParseAttr, HandlerInv
<1>2. CASE left = <<>>
  <2>1. stage' = "params" /\ left' = item.params
    BY <1>1, <1>2, Zenon DEF ParseAttr
  <2>2. item.params \in Seq(Params)
    BY <1>1, Zenon DEF Handlers
  <2>3. Gathered(0)'
    BY <1>1, Zenon DEF Gathered, PayloadAt
  <2>4. /\ Len(item.params) \in Nat /\ Len(item.params) - Len(item.params) = 0
        /\ \A n \in 1..Len(item.params) : n = Len(item.params) - Len(item.params) + n
    BY <2>2
  <2> QED BY <1>1, <2>1, <2>2, <2>3, <2>4 DEF HandlerInv
<1>3. CASE left # <<>> /\ (Head(left) = "other" \/ ~SchedulingKnown(Head(left)))
  <2>1. stage' = "error"
    BY <1>1, <1>3, Zenon DEF ParseAttr
  <2>2. 1 \in 1..Len(left) /\ left[1] \in {"other", "NoSuchLane"}
    BY <1>1, <1>3 DEF SchedulingKnown
  <2>3. BadArgument'
    BY <1>1, <2>2, Zenon DEF BadArgument
  <2> QED BY <1>1, <2>1, <2>3, Zenon DEF HandlerInv
<1>4. CASE left # <<>> /\ ~(Head(left) = "other" \/ ~SchedulingKnown(Head(left)))
  <2>1. left' = Tail(left) /\ stage' = stage
    BY <1>1, <1>4, Zenon DEF ParseAttr
  <2>2. left' \in Seq(AttrArgs) /\ Len(left') = Len(left) - 1
        /\ \A n \in 1..Len(left') : n + 1 \in 1..Len(left) /\ left'[n] = left[n + 1]
    BY <1>1, <1>4, <2>1
  <2>3. Gathered(0)'
    BY <1>1, Zenon DEF Gathered, PayloadAt
  <2> QED BY <1>1, <2>1, <2>2, <2>3 DEF HandlerInv
<1> QED BY <1>2, <1>3, <1>4, Zenon

\* extract_params, one parameter: it is the next one, and what was gathered of those
\* before it grows by it.
LEMMA ProcessParamStep ==
  ASSUME HandlerInv, ProcessParam
  PROVE  HandlerInv'
<1>1. PICK k \in Nat :
        /\ stage = "params" /\ left # <<>> /\ UNCHANGED <<item, emitted>>
        /\ item \in Handlers /\ extracted \in Extractions /\ (item.watch => item.kind = "trigger")
        /\ left \in Seq(Params) /\ item.params \in Seq(Params)
        /\ k = Len(item.params) - Len(left) /\ Len(item.params) = k + Len(left)
        /\ \A n \in 1..Len(left) : left[n] = item.params[k + n]
        /\ Gathered(k)
  <2>1. Len(left) \in Nat /\ Len(item.params) \in Nat /\ item.params \in Seq(Params)
    BY DEF HandlerInv, ProcessParam, Handlers
  <2>2. Len(item.params) - Len(left) \in Nat
    BY <2>1 DEF HandlerInv, ProcessParam
  <2> QED BY <2>1, <2>2, SMTT(60) DEF HandlerInv, ProcessParam
<1>2. /\ Len(left) \in Nat \ {0} /\ k + 1 \in 1..Len(item.params) /\ Head(left) = item.params[k + 1]
      /\ Tail(left) \in Seq(Params) /\ Len(Tail(left)) = Len(left) - 1
      /\ \A n \in 1..Len(Tail(left)) : n + 1 \in 1..Len(left) /\ Tail(left)[n] = left[n + 1]
  BY <1>1
<1>3. IF PayloadAt(k + 1) THEN Payload(k + 1) ELSE Dependency(k + 1)
  BY <1>1, <1>2, Zenon DEF ProcessParam, PayloadAt
<1>4. CASE PayloadAt(k + 1) /\ (item.kind = "service" \/ extracted.payload # 0)
  <2>1. stage' = "error" /\ UNCHANGED extracted
    BY <1>3, <1>4, Zenon DEF Payload
  <2>2. BadPayload
    <3>1. CASE item.kind = "service"
      BY <1>2, <1>4, <3>1, Zenon DEF BadPayload
    <3>2. CASE extracted.payload # 0
      <4>1. extracted.payload \in 1..k /\ PayloadAt(extracted.payload)
        BY <1>1, <3>2, Zenon DEF Gathered
      <4>2. extracted.payload \in 1..Len(item.params) /\ extracted.payload # k + 1
        BY <1>1, <1>2, <4>1
      <4> QED BY <1>2, <1>4, <4>1, <4>2, Zenon DEF BadPayload
    <3> QED BY <1>4, <3>1, <3>2, Zenon
  <2>3. BadPayload'
    BY <1>1, <2>2, Zenon DEF BadPayload, PayloadAt
  <2> QED BY <1>1, <2>1, <2>3, Zenon DEF HandlerInv
<1>5. ASSUME left' = Tail(left), stage' = stage, extracted' \in Extractions, Gathered(k + 1)'
      PROVE  HandlerInv'
  <2>1. /\ left' \in Seq(Params) /\ Len(left') <= Len(item.params)
        /\ Len(item.params) - Len(left') = k + 1
        /\ \A n \in 1..Len(left') : left'[n] = item.params[k + 1 + n]
    <3>1. \A n \in 1..Len(left') : left'[n] = left[n + 1] /\ n + 1 \in 1..Len(left)
                                   /\ k + (n + 1) = k + 1 + n
      BY <1>2, <1>5
    <3> QED BY <1>1, <1>2, <1>5, <3>1
  <2> QED BY <1>1, <1>5, <2>1, Zenon DEF HandlerInv
<1>6. extracted \in Extractions
  BY <1>1, Zenon
<1>7. /\ \A n \in 1..k : PayloadAt(n) <=> n = extracted.payload
      /\ \A n \in 1..k + 1 : n \in 1..k \/ n = k + 1
      /\ \A n \in 1..k : n # 0 /\ n # k + 1
  <2>1. \A n \in 1..k : PayloadAt(n) <=> n = extracted.payload
    BY <1>1, Zenon DEF Gathered
  <2>2. /\ \A n \in 1..k + 1 : n \in 1..k \/ n = k + 1
        /\ \A n \in 1..k : n # 0 /\ n # k + 1
    OBVIOUS
  <2> QED BY <2>1, <2>2, Zenon
<1>8. PICK c \in Seq(Nat) :
        /\ c = Append(extracted.call, k + 1) /\ Len(c) = k + 1 /\ \A n \in 1..k + 1 : c[n] = n
  <2>1. PICK b \in Seq(Nat) : b = extracted.call /\ Len(b) = k /\ \A n \in 1..k : b[n] = n
    BY <1>1, Zenon DEF Extractions, Gathered
  <2>2. /\ Append(b, k + 1) \in Seq(Nat) /\ Len(Append(b, k + 1)) = k + 1
        /\ \A n \in 1..k + 1 : Append(b, k + 1)[n] = n
    BY <2>1
  <2> QED BY <2>1, <2>2, Zenon
<1>9. CASE PayloadAt(k + 1) /\ ~(item.kind = "service" \/ extracted.payload # 0)
  <2>1. /\ extracted' = [extracted EXCEPT !.payload = k + 1, !.call = c]
        /\ left' = Tail(left) /\ stage' = stage
    BY <1>3, <1>8, <1>9, Zenon DEF Payload
  <2>2. PICK m \in Nat : m = k + 1
    OBVIOUS
  <2>3. /\ extracted' \in Extractions /\ extracted'.payload = k + 1 /\ extracted'.call = c
        /\ extracted'.watch = extracted.watch /\ extracted'.resolve = extracted.resolve
    <3>1. extracted' = [extracted EXCEPT !.payload = m, !.call = c]
      BY <2>1, <2>2, Zenon
    <3>2. extracted' \in Extractions /\ extracted'.payload = m /\ extracted'.call = c
      BY <1>6, <3>1, Zenon DEF Extractions
    <3>3. extracted'.watch = extracted.watch /\ extracted'.resolve = extracted.resolve
      BY <1>6, <3>1, Zenon DEF Extractions
    <3> QED BY <2>2, <3>2, <3>3, Zenon
  <2>4. item.kind = "trigger"
    BY <1>1, <1>9, Zenon DEF Handlers
  <2>5. \A n \in 1..k + 1 : PayloadAt(n) <=> n = k + 1
    BY <1>9, <1>7, Zenon
  <2>6. Gathered(k + 1)'
    BY <1>1, <1>8, <2>3, <2>4, <2>5, SMTT(60) DEF Gathered, PayloadAt
  <2> QED BY <1>5, <2>1, <2>3, <2>6, Zenon
<1>10. CASE ~PayloadAt(k + 1)
  <2>1. PICK a \in Seq(Nat) :
          /\ a = Append(extracted.resolve, k + 1) /\ a = Append(extracted.watch, k + 1)
          /\ \A n \in 1..Len(a) : a[n] # 0
    <3>1. PICK b \in Seq(Nat) : /\ b = extracted.resolve /\ b = extracted.watch
                                /\ \A n \in 1..Len(b) : b[n] # 0
      BY <1>1, Zenon DEF Extractions, Gathered
    <3>2. Append(b, k + 1) \in Seq(Nat) /\ \A n \in 1..Len(Append(b, k + 1)) : Append(b, k + 1)[n] # 0
      BY <3>1
    <3> QED BY <3>1, <3>2, Zenon
  <2>2. PICK e \in Seq(Nat) : e = Append(extracted.entries, k + 1)
    <3>1. PICK b \in Seq(Nat) : b = extracted.entries
      BY <1>6, Zenon DEF Extractions
    <3>2. Append(b, k + 1) \in Seq(Nat)
      OBVIOUS
    <3> QED BY <3>1, <3>2, Zenon
  <2>3. /\ extracted' = [extracted EXCEPT !.resolve = a, !.call = c, !.entries = e, !.watch = a]
        /\ left' = Tail(left) /\ stage' = stage
    BY <1>3, <1>8, <1>10, <2>1, <2>2, Zenon DEF Dependency
  <2>4. /\ extracted' \in Extractions /\ extracted'.payload = extracted.payload
        /\ extracted'.call = c /\ extracted'.watch = a /\ extracted'.resolve = a
    BY <1>6, <2>3, Zenon DEF Extractions
  <2>5. extracted.payload # k + 1
    BY <1>1 DEF Gathered, Extractions
  <2>6. \A n \in 1..k + 1 : PayloadAt(n) <=> n = extracted.payload
    BY <1>10, <1>7, <2>5, Zenon
  <2>7. extracted.payload # 0 => item.kind = "trigger" /\ extracted.payload \in 1..k + 1
    BY <1>1 DEF Gathered
  <2>8. Gathered(k + 1)'
    BY <1>1, <1>8, <2>1, <2>4, <2>6, <2>7, Zenon DEF Gathered, PayloadAt
  <2> QED BY <1>5, <2>3, <2>4, <2>8, Zenon
<1> QED BY <1>4, <1>9, <1>10, Zenon

\* The end of the parameters, and the expansion.
LEMMA EmitStep ==
  ASSUME HandlerInv, ParamsEnd \/ Emit
  PROVE  HandlerInv'
<1>1. CASE ParamsEnd
  <2>1. stage = "params" /\ left = <<>> /\ stage' = "emit" /\ UNCHANGED <<item, left, extracted, emitted>>
    BY <1>1, Zenon DEF ParamsEnd
  <2>2. Len(item.params) \in Nat /\ Len(left) = 0
    BY <2>1 DEF HandlerInv, Handlers
  <2>3. Gathered(Len(item.params))
    BY <2>1, <2>2 DEF HandlerInv
  <2>4. Gathered(Len(item.params))'
    BY <2>1, <2>3, Zenon DEF Gathered, PayloadAt
  <2> QED BY <2>1, <2>4, Zenon DEF HandlerInv
<1>2. CASE Emit
  <2>1. stage = "emit" /\ stage' = "done" /\ UNCHANGED <<item, extracted>>
    BY <1>2, Zenon DEF Emit
  <2>2. Gathered(Len(item.params)) /\ Gathered(Len(item.params))'
    BY <2>1, Zenon DEF HandlerInv, Gathered, PayloadAt
  <2>3. /\ emitted'.resolves = IF item.kind = "service" THEN extracted.resolve
                               ELSE <<0>> \o extracted.resolve
        /\ emitted'.vis = ScopeInnerVisibility(item.vis) /\ emitted'.allow = Cleaned(item.allow)
        /\ emitted'.watches = IF item.kind # "service" /\ item.watch
                              THEN Watcher(Append(extracted.watch, 0)) ELSE Watcher(extracted.watch)
    BY <1>2, Zenon DEF Emit, EmitService, EmitTrigger, EventLoopCall
  <2>4. PICK b \in Seq(Nat) : b = extracted.resolve /\ b = extracted.watch
    BY <2>2, Zenon DEF HandlerInv, Extractions, Gathered
  <2>5. Watcher(b) = ElemsOf(b) /\ Watcher(Append(b, 0)) = ElemsOf(b) \cup {0}
    <3>1. Watcher(b) = ElemsOf(b)
      BY Zenon DEF Watcher, ElemsOf
    <3>2. /\ DOMAIN Append(b, 0) = 1..Len(b) + 1 /\ DOMAIN b = 1..Len(b)
          /\ Append(b, 0)[Len(b) + 1] = 0 /\ Len(b) + 1 \in 1..Len(b) + 1
          /\ \A n \in 1..Len(b) : n \in 1..Len(b) + 1 /\ Append(b, 0)[n] = b[n]
          /\ \A n \in 1..Len(b) + 1 : n = Len(b) + 1 \/ n \in 1..Len(b)
      OBVIOUS
    <3>3. Watcher(Append(b, 0)) = ElemsOf(b) \cup {0}
      BY <3>2, Zenon DEF Watcher, ElemsOf
    <3> QED BY <3>1, <3>3, Zenon
  <2>6. Expansion'
    BY <2>1, <2>3, <2>4, <2>5, Zenon DEF HandlerInv, Expansion
  <2> QED BY <2>1, <2>2, <2>6, Zenon DEF HandlerInv
<1> QED BY <1>1, <1>2, Zenon

\* ParseAttr, ProcessParam, ParamsEnd and Emit: the invariant of the expansion.
THEOREM HandlerInvariance == MSpec => []HandlerInv
<1>1. MInit => HandlerInv
  <2> SUFFICES ASSUME MInit PROVE HandlerInv
    BY Zenon
  <2>1. PICK k \in {"service", "trigger"}, w \in BOOLEAN, p \in SeqsUpTo(Params, MaxParams),
             a \in SeqsUpTo(AttrArgs, MaxAttrs), v \in Visibilities, l \in AllowLists :
          /\ w => k = "trigger"
          /\ Given([kind |-> k, watch |-> w, params |-> p, args |-> a, vis |-> v, allow |-> l])
    BY DEF MInit
  <2>2. p \in Seq(Params) /\ a \in Seq(AttrArgs)
    <3>1. ASSUME NEW S, NEW m \in Nat, NEW q \in SeqsUpTo(S, m) PROVE q \in Seq(S)
      <4>1. PICK j \in 0..m : q \in [1..j -> S]
        BY Zenon DEF SeqsUpTo
      <4> QED BY <4>1
    <3> QED BY <3>1, HandlerAssumption, Zenon
  <2>3. /\ item = [kind |-> k, watch |-> w, params |-> p, args |-> a, vis |-> v, allow |-> l]
        /\ stage = "attr" /\ left = item.args
        /\ extracted = [resolve |-> <<>>, call |-> <<>>, entries |-> <<>>, watch |-> <<>>,
                        payload |-> 0]
    BY <2>1, Zenon DEF Given
  <2>4. item \in Handlers
    BY <2>2, <2>3, Zenon DEF Handlers
  <2>5. item.watch => item.kind = "trigger"
    BY <2>1, <2>3, Zenon
  <2>6. <<>> \in Seq(Nat) /\ Len(<<>>) = 0 /\ 0 \in Nat
    OBVIOUS
  <2>7. extracted \in Extractions /\ Gathered(0)
    <3>1. extracted \in Extractions
      BY <2>3, <2>6, Zenon DEF Extractions
    <3> QED BY <2>3, <3>1 DEF Gathered
  <2>8. left \in Seq(AttrArgs)
    BY <2>3, <2>4, Zenon DEF Handlers
  <2> QED BY <2>3, <2>4, <2>5, <2>7, <2>8, Zenon DEF HandlerInv
<1>2. HandlerInv /\ [MNext]_mvars => HandlerInv'
  <2> SUFFICES ASSUME HandlerInv, [MNext]_mvars PROVE HandlerInv'
    BY Zenon
  <2>1. CASE UNCHANGED mvars
    BY <2>1, ZenonT(60) DEF mvars, HandlerInv, Gathered, PayloadAt, Expansion, BadArgument, BadPayload
  <2> QED BY <2>1, ParseAttrStep, ProcessParamStep, EmitStep, Zenon DEF MNext
<1> QED BY <1>1, <1>2, PTL DEF MSpec

\* The wrapper is the function, for every number of parameters and attribute arguments and
\* every depth of the module: a parameter is resolved and watched by the same pass, so
\* the watcher of a generation follows exactly what its wrapper resolved.
THEOREM WrappersAreFaithful == MSpec => []WrapperFaithful
<1>1. HandlerInv => WrapperFaithful
  <2> SUFFICES ASSUME HandlerInv PROVE WrapperFaithful
    BY Zenon
  <2> DEFINE payloads == {n \in DOMAIN item.params : IsPayload(item.params[n])}
             fits == Cardinality(payloads) <= IF item.kind = "service" THEN 0 ELSE 1
  <2>1. /\ item.params \in Seq(Params) /\ DOMAIN item.params = 1..Len(item.params)
        /\ item.args \in Seq(AttrArgs) /\ DOMAIN item.args = 1..Len(item.args)
        /\ item.kind \in {"service", "trigger"} /\ item.vis \in Visibilities
    BY DEF HandlerInv, Handlers
  <2>2. IsFiniteSet(payloads) /\ Cardinality(payloads) \in Nat
    <3>1. IsFiniteSet(1..Len(item.params)) /\ payloads \subseteq 1..Len(item.params)
      BY <2>1, FS_Interval
    <3> QED BY <3>1, FS_Subset, FS_CardinalityType, Zenon
  <2>3. BadPayload => ~fits
    <3>1. ASSUME NEW n \in payloads PROVE Cardinality(payloads) # 0
      BY <2>2, <3>1, FS_EmptySet, Zenon
    <3>2. ASSUME NEW m \in payloads, NEW n \in payloads, m # n PROVE Cardinality(payloads) \notin {0, 1}
      <4>1. Cardinality({m, n}) = 2 /\ {m, n} \subseteq payloads /\ IsFiniteSet({m, n})
        <5>1. IsFiniteSet({m}) /\ Cardinality({m}) = 1
          BY FS_Singleton, Zenon
        <5>2. IsFiniteSet({m} \cup {n}) /\ Cardinality({m} \cup {n}) = 2
          <6>1. n \notin {m} /\ 1 + 1 = 2
            BY <3>2
          <6> QED BY <5>1, <6>1, FS_AddElement, SMTT(60)
        <5>3. {m} \cup {n} = {m, n}
          BY Zenon
        <5> QED BY <5>2, <5>3, Zenon
      <4>2. Cardinality({m, n}) <= Cardinality(payloads)
        BY <2>2, <4>1, FS_Subset, Zenon
      <4> QED BY <2>2, <4>1, <4>2
    <3>3. BadPayload => \/ item.kind = "service" /\ \E n \in payloads : TRUE
                        \/ \E m, n \in payloads : m # n
      BY <2>1, Zenon DEF BadPayload, PayloadAt
    <3> HIDE DEF payloads
    <3> QED BY <2>1, <2>2, <3>1, <3>2, <3>3
  <2>4. Gathered(Len(item.params)) => fits /\ extracted.call = [n \in DOMAIN item.params |-> n]
    <3> SUFFICES ASSUME Gathered(Len(item.params))
                 PROVE  fits /\ extracted.call = [n \in DOMAIN item.params |-> n]
      BY Zenon
    <3>1. extracted.call \in Seq(Nat) /\ extracted.payload \in Nat
      BY Zenon DEF HandlerInv, Extractions
    <3>2. extracted.call = [n \in DOMAIN item.params |-> n]
      <4>1. PICK c \in Seq(Nat) : /\ c = extracted.call /\ Len(c) = Len(item.params)
                                   /\ \A n \in 1..Len(item.params) : c[n] = n
        BY <3>1, Zenon DEF Gathered
      <4>2. DOMAIN c = DOMAIN item.params /\ c = [n \in DOMAIN c |-> c[n]]
        BY <2>1, <4>1
      <4> QED BY <2>1, <4>1, <4>2, Zenon
    <3>3. CASE extracted.payload = 0
      <4>1. payloads = {}
        BY <2>1, <3>3 DEF Gathered, PayloadAt
      <4>2. Cardinality(payloads) = 0
        BY <4>1, FS_EmptySet, Zenon
      <4> HIDE DEF payloads
      <4> QED BY <3>2, <4>2
    <3>4. CASE extracted.payload # 0
      <4>1. payloads = {extracted.payload} /\ item.kind = "trigger"
        BY <2>1, <3>4 DEF Gathered, PayloadAt
      <4>2. Cardinality(payloads) = 1
        BY <4>1, FS_Singleton, Zenon
      <4> QED BY <3>2, <4>1, <4>2
    <3> QED BY <3>3, <3>4, Zenon
  <2>5. ASSUME stage = "done"
        PROVE  emitted.watches = IF item.watch \/ item.kind = "service" THEN ElemsOf(emitted.resolves)
                                 ELSE ElemsOf(emitted.resolves) \ {0}
    <3>1. Expansion /\ Gathered(Len(item.params)) /\ (item.watch => item.kind = "trigger")
      BY <2>5, Zenon DEF HandlerInv
    <3>2. PICK b \in Seq(Nat) : b = extracted.resolve /\ \A n \in 1..Len(b) : b[n] # 0
      BY <3>1, Zenon DEF HandlerInv, Extractions, Gathered
    <3>3. ElemsOf(<<0>> \o b) = ElemsOf(b) \cup {0}
      <4>1. /\ DOMAIN (<<0>> \o b) = 1..Len(b) + 1 /\ DOMAIN b = 1..Len(b)
            /\ (<<0>> \o b)[1] = 0 /\ 1 \in 1..Len(b) + 1
            /\ \A n \in 1..Len(b) : n + 1 \in 1..Len(b) + 1 /\ (<<0>> \o b)[n + 1] = b[n]
            /\ \A n \in 1..Len(b) + 1 : n = 1 \/ (n - 1 \in 1..Len(b) /\ (<<0>> \o b)[n] = b[n - 1])
        OBVIOUS
      <4>2. \A x \in ElemsOf(<<0>> \o b) : x \in ElemsOf(b) \cup {0}
        <5> TAKE x \in ElemsOf(<<0>> \o b)
        <5>1. PICK n \in 1..Len(b) + 1 : x = (<<0>> \o b)[n]
          BY <4>1, Zenon DEF ElemsOf
        <5>2. CASE n = 1
          BY <4>1, <5>1, <5>2, Zenon
        <5>3. CASE n - 1 \in 1..Len(b) /\ (<<0>> \o b)[n] = b[n - 1]
          BY <4>1, <5>1, <5>3, Zenon DEF ElemsOf
        <5> QED BY <4>1, <5>2, <5>3, Zenon
      <4>3. ASSUME NEW x \in ElemsOf(b) PROVE x \in ElemsOf(<<0>> \o b)
        <5>1. PICK n \in 1..Len(b) : x = b[n]
          BY <4>1, <4>3, Zenon DEF ElemsOf
        <5> QED BY <4>1, <5>1, Zenon DEF ElemsOf
      <4>4. 0 \in ElemsOf(<<0>> \o b)
        BY <4>1, Zenon DEF ElemsOf
      <4> QED BY <4>2, <4>3, <4>4, Zenon
    <3>4. 0 \notin ElemsOf(b)
      BY <3>2 DEF ElemsOf
    <3>5. CASE item.kind = "service"
      BY <3>1, <3>2, <3>5, Zenon DEF Expansion
    <3>6. CASE item.kind # "service"
      BY <3>1, <3>2, <3>3, <3>4, <3>6, Zenon DEF Expansion
    <3> QED BY <3>5, <3>6, Zenon
  <2>6. Region(ScopeInnerVisibility(item.vis), Depth + 1) = Region(item.vis, Depth)
    BY <2>1, HandlerAssumption DEF Region, ScopeInnerVisibility, Visibilities
  <2>7. UNION Cleaned(item.allow) = (UNION item.allow) \ {"sync_handler"}
    <3> DEFINE A == UNION Cleaned(item.allow)
               B == (UNION item.allow) \ {"sync_handler"}
    <3>1. ASSUME NEW x \in A PROVE x \in B
      <4>1. PICK c \in Cleaned(item.allow) : x \in c
        BY <3>1, Zenon
      <4>2. PICK s \in item.allow : c = s \ {"sync_handler"}
        BY Zenon DEF Cleaned
      <4>3. x \in s /\ x # "sync_handler"
        BY <4>1, <4>2, Zenon
      <4> QED BY <4>3, Zenon
    <3>2. ASSUME NEW x \in B PROVE x \in A
      <4>1. PICK s \in item.allow : x \in s /\ x # "sync_handler"
        BY <3>2, Zenon
      <4>2. s \ {"sync_handler"} \in Cleaned(item.allow)
        BY <4>1, Zenon DEF Cleaned
      <4> QED BY <4>1, <4>2, Zenon
    <3> HIDE DEF A, B
    <3>3. A = B
      BY <3>1, <3>2, Zenon
    <3> QED BY <3>3, Zenon DEF A, B
  <2> HIDE DEF payloads, fits
  <2>8. stage = "error" => ~fits \/ \E n \in DOMAIN item.args : item.args[n] \in {"other", "NoSuchLane"}
    BY <2>1, <2>3, Zenon DEF HandlerInv, BadArgument
  <2>9. stage \in {"emit", "done"} => fits /\ extracted.call = [n \in DOMAIN item.params |-> n]
    BY <2>4, Zenon DEF HandlerInv
  <2>10. stage = "done" => /\ Region(emitted.vis, Depth + 1) = Region(item.vis, Depth)
                           /\ UNION emitted.allow = (UNION item.allow) \ {"sync_handler"}
    BY <2>6, <2>7, Zenon DEF HandlerInv, Expansion
  <2> QED BY <2>5, <2>8, <2>9, <2>10, Zenon DEF WrapperFaithful, payloads, fits
<1> QED BY <1>1, HandlerInvariance, PTL

-----------------------------------------------------------------------------
(* The constructors of a provider                                            *)

Attributes == [kind : {"Empty", "ValueNone", "ValueDefault", "Template", "refused"},
               arg : {"none", "type", "str", "extra"}, env : BOOLEAN, capacity : {-1, 5},
               eager : BOOLEAN, eagerSeen : BOOLEAN]

KeyAt(n) == decl.l[n].key

KindOf(p) == CASE p.kind = "named" -> "ValueNone" [] p.kind = "expr" -> "ValueDefault"
               [] OTHER -> p.kind

\* The first k named arguments, each of which is legible on its own and none repeated.
Legible(k) ==
  /\ \A n \in 1..k : KeyAt(n) # "other" /\ (KeyAt(n) = "capacity" => decl.l[n].val = "num")
  /\ \A m, n \in 1..k : m # n => KeyAt(m) # KeyAt(n)

\* What ProviderArgs holds once they are parsed.
Stored(k) ==
  /\ args.env <=> \E n \in 1..k : KeyAt(n) = "env"
  /\ args.capacity = 5 <=> \E n \in 1..k : KeyAt(n) = "capacity"
  /\ args.eagerSeen <=> \E n \in 1..k : KeyAt(n) = "eager"
  /\ args.eager <=> \E n \in 1..k : decl.l[n] = [key |-> "eager", val |-> "true"]

\* An attribute that reads unambiguously.
Clear ==
  /\ Legible(Len(decl.l))
  /\ \A n \in 1..Len(decl.l) : KeyAt(n) = "capacity" => decl.p.kind = "Template"
  /\ decl.p.kind = "Template" => ParenParses(decl.p)

Primary ==
  /\ args.kind = KindOf(decl.p) /\ (decl.p.kind = "Template" => ParenParses(decl.p))
  /\ args.arg = IF decl.p.kind = "Template" THEN decl.p.paren ELSE "none"

\* The expansion: the constructor, what it names as its parameters, and where its helper
\* has a Result.
Expanded ==
  /\ output.ctor \in {"requiredEnv", "default", "fields", "fn"} \cup AddrTemplates
  /\ output.params = Resolved
  /\ output.ctor = "requiredEnv" \/ output.ctor \in AddrTemplates => output.style = "Fallible"
  /\ output.ctor = "fields" /\ Injected(decl.i.types) # {} => output.style = "Fallible"
  /\ output.ctor = "fn" /\ (decl.i.fallible \/ Injected(decl.i.types) # {}) => output.style = "Fallible"

MacroInv ==
  /\ decl.i \in Items /\ decl.p \in Primaries /\ decl.l \in Seq(NamedArgs)
  /\ args \in Attributes
  /\ step \in {"primary", "named", "expand", "done", "error"}
  /\ decl.p.kind = "Empty" => decl.l = <<>>
  /\ step = "primary" => rest = decl.l /\ Stored(0)
  /\ step = "named" =>
       /\ rest \in Seq(NamedArgs) /\ Len(rest) <= Len(decl.l)
       /\ \A n \in 1..Len(rest) : rest[n] = decl.l[Len(decl.l) - Len(rest) + n]
       /\ Stored(Len(decl.l) - Len(rest)) /\ Legible(Len(decl.l) - Len(rest)) /\ Primary
  /\ step \in {"expand", "done"} => Stored(Len(decl.l)) /\ Clear /\ Primary
  /\ step = "done" => Expanded
  /\ step = "error" =>
       \/ ~Clear
       \/ decl.i.item = "fn" /\ Injected(decl.i.types) # DOMAIN decl.i.types
       \/ decl.i.item # "fn" /\ decl.p.name \in AddrTemplates /\ decl.p.paren = "none"

\* Phase 1: the primary argument is stored, or its parentheses are refused.
LEMMA ParsePrimaryStep ==
  ASSUME MacroInv, ParsePrimary
  PROVE  MacroInv'
<1>1. /\ step = "primary" /\ UNCHANGED <<decl, rest, output>>
      /\ decl.i \in Items /\ decl.p \in Primaries /\ decl.l \in Seq(NamedArgs)
      /\ (decl.p.kind = "Empty" => decl.l = <<>>) /\ rest = decl.l
  BY Zenon DEF MacroInv, ParsePrimary
<1>2. args \in Attributes
  BY Zenon DEF MacroInv
<1>3. Stored(0)
  BY <1>1, Zenon DEF MacroInv
<1>4. CASE decl.p.kind = "Template" /\ ~ParenParses(decl.p)
  <2>1. step' = "error" /\ args' = args
    BY <1>1, <1>4, Zenon DEF ParsePrimary
  <2>2. ~Clear'
    BY <1>1, <1>4, Zenon DEF Clear, ParenParses
  <2> QED BY <1>1, <1>2, <2>1, <2>2, Zenon DEF MacroInv
<1>5. CASE ~(decl.p.kind = "Template" /\ ~ParenParses(decl.p))
  <2>1. PICK K \in {"Empty", "ValueNone", "ValueDefault", "Template"} : K = KindOf(decl.p)
    BY <1>1, Zenon DEF KindOf, Primaries
  <2>2. PICK A \in {"none", "type", "str", "extra"} :
          A = IF decl.p.kind = "Template" THEN decl.p.paren ELSE "none"
    BY <1>1, Zenon DEF Primaries
  <2>3. /\ args' = [args EXCEPT !.kind = K, !.arg = A]
        /\ step' = IF decl.p.kind = "Empty" THEN "expand" ELSE "named"
    BY <1>1, <1>5, <2>1, <2>2, Zenon DEF ParsePrimary, KindOf
  <2>4. args' \in Attributes
    BY <1>2, <2>3, Zenon DEF Attributes
  <2>5. args'.kind = K /\ args'.arg = A /\ args'.capacity = args.capacity
    BY <1>2, <2>3, Zenon DEF Attributes
  <2>6. (args'.env <=> args.env) /\ (args'.eager <=> args.eager) /\ (args'.eagerSeen <=> args.eagerSeen)
    BY <1>2, <2>3, Zenon DEF Attributes
  <2>7. Primary'
    BY <1>1, <1>5, <2>1, <2>2, <2>5, Zenon DEF Primary, KindOf, ParenParses
  <2>8. Stored(0)'
    BY <1>1, <1>3, <2>5, <2>6, Zenon DEF Stored, KeyAt
  <2>9. Legible(0)'
    BY DEF Legible
  <2>10. CASE decl.p.kind = "Empty"
    <3>1. Len(decl.l) = 0
      BY <1>1, <2>10
    <3>2. Clear'
      BY <1>1, <2>9, <2>10, <3>1 DEF Clear
    <3>3. step' = "expand" /\ Stored(Len(decl.l))'
      BY <1>1, <2>3, <2>8, <2>10, <3>1, Zenon
    <3> QED BY <1>1, <2>4, <2>7, <3>2, <3>3, Zenon DEF MacroInv
  <2>11. CASE decl.p.kind # "Empty"
    <3>1. step' = "named"
      BY <2>3, <2>11, Zenon
    <3>2. /\ Len(decl.l) \in Nat /\ Len(decl.l) - Len(decl.l) = 0
          /\ \A n \in 1..Len(decl.l) : n = Len(decl.l) - Len(decl.l) + n
      BY <1>1
    <3> QED BY <1>1, <2>4, <2>7, <2>8, <2>9, <3>1, <3>2 DEF MacroInv
  <2> QED BY <2>10, <2>11, Zenon
<1> QED BY <1>4, <1>5, Zenon

\* The end of the named arguments: a capacity on a value is refused.
LEMMA ParseNamedEnds ==
  ASSUME MacroInv, ParseNamed, rest = <<>>
  PROVE  MacroInv'
<1>1. /\ step = "named" /\ UNCHANGED <<decl, args, rest, output>>
      /\ decl.i \in Items /\ decl.p \in Primaries /\ decl.l \in Seq(NamedArgs)
      /\ (decl.p.kind = "Empty" => decl.l = <<>>) /\ Primary
  BY Zenon DEF MacroInv, ParseNamed
<1>2. args \in Attributes
  BY Zenon DEF MacroInv
<1>3. Len(rest) = 0 /\ Len(decl.l) \in Nat /\ Len(decl.l) - Len(rest) = Len(decl.l)
  BY <1>1
<1>4. Stored(Len(decl.l)) /\ Legible(Len(decl.l))
  BY <1>1, <1>3, Zenon DEF MacroInv
<1>5. /\ args.capacity = 5 <=> args.capacity # -1
      /\ args.kind \in {"ValueNone", "ValueDefault"} <=> decl.p.kind \in {"named", "expr"}
      /\ decl.p.kind \in {"Empty", "named", "expr", "Template"}
  BY <1>1, <1>2 DEF Attributes, Primary, KindOf, Primaries
<1>6. CASE args.capacity # -1 /\ args.kind \in {"ValueNone", "ValueDefault"}
  <2>1. step' = "error"
    BY <1>1, <1>6, Zenon DEF ParseNamed
  <2>2. PICK n \in 1..Len(decl.l) : KeyAt(n) = "capacity"
    BY <1>4, <1>5, <1>6, Zenon DEF Stored
  <2>3. ~Clear'
    BY <1>1, <1>5, <1>6, <2>2, Zenon DEF Clear, KeyAt
  <2> QED BY <1>1, <1>2, <2>1, <2>3, Zenon DEF MacroInv
<1>7. CASE ~(args.capacity # -1 /\ args.kind \in {"ValueNone", "ValueDefault"})
  <2>1. step' = "expand"
    BY <1>1, <1>7, Zenon DEF ParseNamed
  <2>2. ASSUME NEW n \in 1..Len(decl.l), KeyAt(n) = "capacity" PROVE decl.p.kind = "Template"
    <3>1. decl.p.kind # "Empty"
      BY <1>1
    <3>2. args.capacity = 5
      BY <1>4, <2>2, Zenon DEF Stored
    <3> QED BY <1>5, <1>7, <3>1, <3>2, Zenon
  <2>3. Clear
    BY <1>1, <1>4, <2>2, Zenon DEF Clear, Primary
  <2>4. Stored(Len(decl.l))' /\ Primary' /\ Clear'
    BY <1>1, <1>4, <2>3 DEF Stored, Primary, Clear, KeyAt, Legible, ParenParses
  <2> QED BY <1>1, <1>2, <2>1, <2>4, Zenon DEF MacroInv
<1> QED BY <1>6, <1>7, Zenon

\* One named argument: it is stored under its key, or refused because it is illegible or
\* repeats one.
LEMMA ParseNamedStep ==
  ASSUME MacroInv, ParseNamed, rest # <<>>
  PROVE  MacroInv'
<1>1. PICK k \in Nat :
        /\ step = "named" /\ UNCHANGED <<decl, output>>
        /\ decl.i \in Items /\ decl.p \in Primaries /\ decl.l \in Seq(NamedArgs)
        /\ (decl.p.kind = "Empty" => decl.l = <<>>) /\ Primary
        /\ rest \in Seq(NamedArgs) /\ k = Len(decl.l) - Len(rest) /\ Len(decl.l) = k + Len(rest)
        /\ \A n \in 1..Len(rest) : rest[n] = decl.l[k + n]
        /\ Stored(k) /\ Legible(k)
  <2> DEFINE d == Len(decl.l) - Len(rest)
  <2>1. /\ step = "named" /\ UNCHANGED <<decl, output>>
        /\ decl.i \in Items /\ decl.p \in Primaries /\ decl.l \in Seq(NamedArgs)
        /\ (decl.p.kind = "Empty" => decl.l = <<>>) /\ Primary
        /\ rest \in Seq(NamedArgs) /\ Len(rest) <= Len(decl.l)
        /\ \A n \in 1..Len(rest) : rest[n] = decl.l[d + n]
        /\ Stored(d) /\ Legible(d)
    BY Zenon DEF MacroInv, ParseNamed
  <2>2. d \in Nat /\ Len(decl.l) = d + Len(rest)
    BY <2>1
  <2> HIDE DEF d
  <2> QED BY <2>1, <2>2, Zenon DEF d
<1>2. args \in Attributes
  BY Zenon DEF MacroInv
<1>3. /\ Len(rest) \in Nat \ {0} /\ k + 1 \in 1..Len(decl.l)
      /\ Tail(rest) \in Seq(NamedArgs) /\ Len(Tail(rest)) = Len(rest) - 1
      /\ \A n \in 1..Len(Tail(rest)) : n + 1 \in 1..Len(rest) /\ Tail(rest)[n] = rest[n + 1]
      /\ \A n \in 1..k : n \in 1..Len(decl.l) /\ n # k + 1
      /\ \A n \in 1..k + 1 : n \in 1..k \/ n = k + 1
  <2>1. Len(rest) \in Nat \ {0} /\ Tail(rest) \in Seq(NamedArgs) /\ Len(Tail(rest)) = Len(rest) - 1
    BY <1>1
  <2>2. \A n \in 1..Len(Tail(rest)) : n + 1 \in 1..Len(rest) /\ Tail(rest)[n] = rest[n + 1]
    BY <1>1, <2>1
  <2>3. Len(decl.l) = k + Len(rest)
    BY <1>1, Zenon
  <2>4. k + 1 \in 1..Len(decl.l) /\ \A n \in 1..k : n \in 1..Len(decl.l) /\ n # k + 1
    BY <2>1, <2>3
  <2>5. \A n \in 1..k + 1 : n \in 1..k \/ n = k + 1
    OBVIOUS
  <2> QED BY <2>1, <2>2, <2>4, <2>5, Zenon
<1>4. PICK x \in NamedArgs : x = Head(rest) /\ x = decl.l[k + 1] /\ x.key = KeyAt(k + 1)
  <2>1. Head(rest) \in NamedArgs /\ Head(rest) = decl.l[k + 1]
    BY <1>1, <1>3
  <2> QED BY <2>1, Zenon DEF KeyAt
<1>5. /\ args' = Store(args, x) /\ rest' = Tail(rest)
      /\ step' = IF args'.kind = "refused" THEN "error" ELSE "named"
  BY <1>1, <1>4, Zenon DEF ParseNamed
<1>6. args.kind # "refused"
  BY <1>1, Zenon DEF Primary, KindOf, Primaries
\* a key of its own, stored
<1>7. ASSUME args' \in Attributes, args'.kind = args.kind, args'.arg = args.arg,
             Legible(k + 1), Stored(k + 1)'
      PROVE  MacroInv'
  <2>1. step' = "named"
    BY <1>5, <1>6, <1>7, Zenon
  <2>2. /\ rest' \in Seq(NamedArgs) /\ Len(rest') <= Len(decl.l)
        /\ Len(decl.l) - Len(rest') = k + 1
        /\ \A n \in 1..Len(rest') : rest'[n] = decl.l[k + 1 + n]
    <3>1. \A n \in 1..Len(rest') : rest'[n] = rest[n + 1] /\ n + 1 \in 1..Len(rest)
                                   /\ k + (n + 1) = k + 1 + n
      BY <1>3, <1>5
    <3> QED BY <1>1, <1>3, <1>5, <3>1, SMTT(60)
  <2>3. Legible(k + 1)' /\ Primary'
    <3> decl' = decl
      BY <1>1, Zenon
    <3>1. Legible(k + 1)'
      BY <1>7, Zenon DEF Legible, KeyAt
    <3>2. Primary'
      BY <1>1, <1>7, Zenon DEF Primary, ParenParses
    <3> QED BY <3>1, <3>2, Zenon
  <2> QED BY <1>1, <1>7, <2>1, <2>2, <2>3, Zenon DEF MacroInv
<1>8. ASSUME \A n \in 1..k : KeyAt(n) # x.key, x.key # "other", x.key = "capacity" => x.val = "num"
      PROVE  Legible(k + 1)
  <2>1. \A n \in 1..k + 1 : KeyAt(n) # "other" /\ (KeyAt(n) = "capacity" => decl.l[n].val = "num")
    BY <1>1, <1>3, <1>4, <1>8, SMTT(60) DEF Legible
  <2>2. ASSUME NEW m \in 1..k + 1, NEW n \in 1..k + 1, m # n PROVE KeyAt(m) # KeyAt(n)
    <3>1. m \in 1..k \/ m = k + 1
      BY <1>3, Zenon
    <3>2. n \in 1..k \/ n = k + 1
      BY <1>3, Zenon
    <3>3. CASE m \in 1..k /\ n \in 1..k
      BY <1>1, <2>2, <3>3, Zenon DEF Legible
    <3> QED BY <1>4, <1>8, <2>2, <3>1, <3>2, <3>3, Zenon
  <2> QED BY <2>1, <2>2, Zenon DEF Legible
<1>9. /\ (\E n \in 1..k + 1 : KeyAt(n) = "env") <=> x.key = "env" \/ \E n \in 1..k : KeyAt(n) = "env"
      /\ (\E n \in 1..k + 1 : KeyAt(n) = "capacity") <=>
           x.key = "capacity" \/ \E n \in 1..k : KeyAt(n) = "capacity"
      /\ (\E n \in 1..k + 1 : KeyAt(n) = "eager") <=>
           x.key = "eager" \/ \E n \in 1..k : KeyAt(n) = "eager"
      /\ (\E n \in 1..k + 1 : decl.l[n] = [key |-> "eager", val |-> "true"]) <=>
           \/ x = [key |-> "eager", val |-> "true"]
           \/ \E n \in 1..k : decl.l[n] = [key |-> "eager", val |-> "true"]
  <2>1. k + 1 \in 1..k + 1 /\ \A n \in 1..k : n \in 1..k + 1
    OBVIOUS
  <2> QED BY <1>3, <1>4, <2>1, Zenon
<1>10. /\ args.env <=> \E n \in 1..k : KeyAt(n) = "env"
       /\ args.capacity = 5 <=> \E n \in 1..k : KeyAt(n) = "capacity"
       /\ args.eagerSeen <=> \E n \in 1..k : KeyAt(n) = "eager"
       /\ args.eager <=> \E n \in 1..k : decl.l[n] = [key |-> "eager", val |-> "true"]
  BY <1>1, Zenon DEF Stored
<1>11. ASSUME args'.env <=> \E n \in 1..k + 1 : KeyAt(n) = "env",
              args'.capacity = 5 <=> \E n \in 1..k + 1 : KeyAt(n) = "capacity",
              args'.eagerSeen <=> \E n \in 1..k + 1 : KeyAt(n) = "eager",
              args'.eager <=> \E n \in 1..k + 1 : decl.l[n] = [key |-> "eager", val |-> "true"]
       PROVE  Stored(k + 1)'
  <2>1. decl' = decl
    BY <1>1, Zenon
  <2> QED BY <1>11, <2>1, Zenon DEF Stored, KeyAt
<1>12. CASE x.key = "env" /\ ~args.env
  <2>1. args' = [args EXCEPT !.env = TRUE]
    BY <1>5, <1>12, Zenon DEF Store
  <2>2. args' \in Attributes /\ args'.kind = args.kind /\ args'.arg = args.arg
        /\ args'.capacity = args.capacity
    BY <1>2, <2>1, Zenon DEF Attributes
  <2>3. args'.env /\ (args'.eager <=> args.eager) /\ (args'.eagerSeen <=> args.eagerSeen)
    BY <1>2, <2>1, Zenon DEF Attributes
  <2>4. Stored(k + 1)'
    <3>1. x # [key |-> "eager", val |-> "true"]
      BY <1>12
    <3> QED BY <1>9, <1>12, <1>10, <1>11, <2>2, <2>3, <3>1, Zenon
  <2>5. Legible(k + 1)
    BY <1>1, <1>8, <1>12, SMTT(60) DEF Stored
  <2> QED BY <1>7, <2>2, <2>4, <2>5, Zenon
<1>13. CASE x.key = "capacity" /\ args.capacity = -1 /\ x.val = "num"
  <2>1. args' = [args EXCEPT !.capacity = 5]
    BY <1>5, <1>13, Zenon DEF Store
  <2>2. args' \in Attributes /\ args'.kind = args.kind /\ args'.arg = args.arg
        /\ args'.capacity = 5
    BY <1>2, <2>1, Zenon DEF Attributes
  <2>3. (args'.env <=> args.env) /\ (args'.eager <=> args.eager) /\ (args'.eagerSeen <=> args.eagerSeen)
    BY <1>2, <2>1, Zenon DEF Attributes
  <2>4. Stored(k + 1)'
    <3>1. x # [key |-> "eager", val |-> "true"]
      BY <1>13
    <3> QED BY <1>9, <1>13, <1>10, <1>11, <2>2, <2>3, <3>1, Zenon
  <2>5. Legible(k + 1)
    BY <1>1, <1>8, <1>13 DEF Stored
  <2> QED BY <1>7, <2>2, <2>4, <2>5, Zenon
<1>14. CASE x.key = "eager" /\ ~args.eagerSeen
  <2>1. PICK b \in BOOLEAN : b = (x.val = "true")
    BY Zenon
  <2>2. args' = [args EXCEPT !.eager = b, !.eagerSeen = TRUE]
    BY <1>5, <1>14, <2>1, Zenon DEF Store
  <2>3. args' \in Attributes /\ args'.kind = args.kind /\ args'.arg = args.arg
        /\ args'.capacity = args.capacity
    BY <1>2, <2>2, Zenon DEF Attributes
  <2>4. (args'.env <=> args.env) /\ (args'.eager <=> b) /\ args'.eagerSeen
    BY <1>2, <2>2, Zenon DEF Attributes
  <2>5. b <=> x = [key |-> "eager", val |-> "true"]
    <3>1. x \in [key : {"eager"}, val : {"true", "false"}]
      BY <1>14, Zenon DEF NamedArgs
    <3>2. x = [key |-> "eager", val |-> "true"] \/ x = [key |-> "eager", val |-> "false"]
      BY <3>1, Zenon
    <3>3. x.val = "true" <=> x = [key |-> "eager", val |-> "true"]
      BY <3>2
    <3> QED BY <2>1, <3>3, Zenon
  <2>6. ~\E n \in 1..k : decl.l[n] = [key |-> "eager", val |-> "true"]
    BY <1>1, <1>14 DEF Stored, KeyAt
  <2>7. Stored(k + 1)'
    BY <1>9, <1>14, <1>10, <1>11, <2>3, <2>4, <2>5, <2>6, Zenon
  <2>8. Legible(k + 1)
    BY <1>1, <1>8, <1>14 DEF Stored
  <2> QED BY <1>7, <2>3, <2>7, <2>8, Zenon
<1>15. CASE /\ ~(x.key = "env" /\ ~args.env) /\ ~(x.key = "eager" /\ ~args.eagerSeen)
            /\ ~(x.key = "capacity" /\ args.capacity = -1 /\ x.val = "num")
  <2>1. args' = [args EXCEPT !.kind = "refused"]
    BY <1>5, <1>15, Zenon DEF Store
  <2>2. args' \in Attributes /\ args'.kind = "refused"
    BY <1>2, <2>1, Zenon DEF Attributes
  <2>3. step' = "error"
    BY <1>5, <2>2, Zenon
  <2>4. ~Legible(Len(decl.l))
    <3>1. x.key \in {"env", "capacity", "eager", "other"}
      BY Zenon DEF NamedArgs
    <3>2. CASE x.key = "other"
      BY <1>3, <1>4, <3>2, Zenon DEF Legible
    <3>3. CASE x.key = "capacity" /\ x.val # "num"
      BY <1>3, <1>4, <3>3, Zenon DEF Legible
    <3>4. CASE \E n \in 1..k : KeyAt(n) = x.key
      BY <1>3, <1>4, <3>4, Zenon DEF Legible
    <3>5. args.capacity = 5 \/ args.capacity = -1
      BY <1>2, Zenon DEF Attributes
    <3> QED BY <1>1, <1>15, <3>1, <3>2, <3>3, <3>4, <3>5 DEF Stored
  <2>5. ~Clear'
    BY <1>1, <2>4 DEF Clear, Legible, KeyAt
  <2> QED BY <1>1, <2>2, <2>3, <2>5, Zenon DEF MacroInv
<1> QED BY <1>12, <1>13, <1>14, <1>15, Zenon

\* The expansion lists as parameters what its constructors resolve, and gives its helper a
\* Result wherever those can fail.
LEMMA ExpandStep ==
  ASSUME MacroInv, Expand
  PROVE  MacroInv'
<1>1. /\ step = "expand" /\ UNCHANGED <<decl, rest, args>>
      /\ decl.i \in Items /\ decl.p \in Primaries /\ decl.l \in Seq(NamedArgs)
      /\ (decl.p.kind = "Empty" => decl.l = <<>>) /\ Clear /\ Primary
  BY Zenon DEF MacroInv, Expand
<1>2. args \in Attributes /\ Stored(Len(decl.l))
  BY <1>1, Zenon DEF MacroInv
<1>3. Clear' /\ Primary' /\ Stored(Len(decl.l))' /\ args' \in Attributes
  BY <1>1, <1>2 DEF Clear, Primary, Stored, KeyAt, Legible, ParenParses
<1>4. decl.i.item \in {"unit", "tuple", "named", "fn"}
      /\ (decl.i.item \in {"unit", "tuple"} => decl.i.types = <<>>)
  BY <1>1, Zenon DEF Items
<1>5. Injected(<<>>) = {} /\ \A c \in AddrTemplates : c \notin {"requiredEnv", "default", "fields", "fn"}
  BY DEF Injected, AddrTemplates
<1>6. ASSUME step' = "done", Expanded' PROVE MacroInv'
  BY <1>1, <1>3, <1>6, Zenon DEF MacroInv
<1>7. CASE decl.i.item = "fn"
  <2>1. CASE Injected(decl.i.types) # DOMAIN decl.i.types
    <3>1. step' = "error"
      BY <1>1, <1>7, <2>1, Zenon DEF Expand, Function
    <3> QED BY <1>1, <1>3, <1>7, <2>1, <3>1, Zenon DEF MacroInv, Injected
  <2>2. CASE Injected(decl.i.types) = DOMAIN decl.i.types
    <3>1. /\ step' = "done" /\ output'.ctor = "fn" /\ output'.style = HelperStyle(decl.i)
          /\ output'.params = Injected(decl.i.types)
      BY <1>1, <1>7, <2>2 DEF Expand, Function, ParamEntries
    <3>2. decl.i.fallible \/ Injected(decl.i.types) # {} => output'.style = "Fallible"
      BY <1>7, <3>1, Zenon DEF HelperStyle, ParamEntries
    <3>3. Expanded'
      BY <1>1, <1>5, <3>1, <3>2, Zenon DEF Expanded, Resolved, Injected
    <3> QED BY <1>6, <3>1, <3>3, Zenon
  <2> QED BY <2>1, <2>2, Zenon
<1>8. CASE decl.i.item # "fn" /\ args.kind = "Template"
  <2>1. decl.p.kind = "Template" /\ args.arg = decl.p.paren /\ decl.p.name \in Templates
        /\ ParenParses(decl.p)
    BY <1>1, <1>8, Zenon DEF Primary, KindOf, Primaries
  <2>2. CASE decl.p.name \in AddrTemplates /\ args.arg # "str"
    <3>1. step' = "error"
      BY <1>1, <1>8, <2>2, Zenon DEF Expand, Template
    <3>2. decl.p.paren = "none"
      BY <2>1, <2>2, Zenon DEF ParenParses
    <3> QED BY <1>1, <1>3, <1>8, <2>2, <3>1, <3>2, Zenon DEF MacroInv
  <2>3. CASE decl.p.name \in AddrTemplates /\ args.arg = "str"
    <3>1. step' = "done" /\ output' = AddrTemplate(decl.p.name)
      BY <1>1, <1>8, <2>3, Zenon DEF Expand, Template
    <3>2. output'.ctor = decl.p.name /\ output'.style = "Fallible" /\ output'.params = {}
      BY <3>1, Zenon DEF AddrTemplate
    <3>3. Expanded'
      BY <1>5, <2>3, <3>2, Zenon DEF Expanded, Resolved
    <3> QED BY <1>6, <3>1, <3>3, Zenon
  <2>4. CASE decl.p.name \notin AddrTemplates
    <3>1. step' = "done" /\ output' = MemoryTemplate(decl.p.name)
      BY <1>1, <1>8, <2>4, Zenon DEF Expand, Template
    <3>2. output'.ctor = "default" /\ output'.params = {}
      BY <3>1, Zenon DEF MemoryTemplate
    <3>3. Expanded'
      BY <1>5, <3>2, Zenon DEF Expanded, Resolved
    <3> QED BY <1>6, <3>1, <3>3, Zenon
  <2> QED BY <2>2, <2>3, <2>4, Zenon
<1>9. CASE decl.i.item # "fn" /\ args.kind # "Template"
  <2>1. /\ step' = "done" /\ output'.style = HelperStyle(decl.i)
        /\ output'.params = Injected(decl.i.types)
        /\ output'.ctor = CASE RequiredEnv -> "requiredEnv" [] decl.i.item = "named" -> "fields"
                             [] OTHER -> "default"
    BY <1>1, <1>9 DEF Expand, Struct, ParamEntries
  <2>2. CASE RequiredEnv
    <3>1. decl.i.item = "tuple" /\ output'.style = "Fallible"
      BY <2>1, <2>2, Zenon DEF RequiredEnv, HelperStyle
    <3>2. output'.ctor = "requiredEnv"
      BY <2>1, <2>2, <3>1, Zenon
    <3>3. Expanded'
      BY <1>4, <1>5, <2>1, <3>1, <3>2, Zenon DEF Expanded, Resolved
    <3> QED BY <1>6, <2>1, <3>3, Zenon
  <2>3. CASE ~RequiredEnv /\ decl.i.item = "named"
    <3>1. output'.ctor = "fields" /\ (Injected(decl.i.types) # {} => output'.style = "Fallible")
      BY <2>1, <2>3, Zenon DEF HelperStyle
    <3>2. Expanded'
      BY <1>1, <1>5, <2>1, <3>1, Zenon DEF Expanded, Resolved, Injected
    <3> QED BY <1>6, <2>1, <3>2, Zenon
  <2>4. CASE ~RequiredEnv /\ decl.i.item # "named"
    <3>1. output'.ctor = "default" /\ decl.i.types = <<>>
      BY <1>4, <1>9, <2>1, <2>4, Zenon
    <3>2. Expanded'
      BY <1>5, <2>1, <3>1, Zenon DEF Expanded, Resolved
    <3> QED BY <1>6, <2>1, <3>2, Zenon
  <2> QED BY <2>2, <2>3, <2>4, Zenon
<1> QED BY <1>7, <1>8, <1>9, Zenon

\* Before anything is parsed nothing is stored.
LEMMA DeclaredInv ==
  ASSUME JInit
  PROVE  MacroInv
<1>1. PICK i \in Items, p \in Primaries, l \in NamedLists :
        (p.kind = "Empty" => l = <<>>) /\ Declared(i, p, l)
  BY Zenon DEF JInit
<1>2. PICK m \in 0..MaxNamed : l \in [1..m -> NamedArgs]
  BY Zenon DEF NamedLists
<1>3. l \in Seq(NamedArgs)
  BY <1>2, NamedAssumption
<1>4. /\ decl.i = i /\ decl.p = p /\ decl.l = l /\ rest = l /\ step = "primary"
      /\ args.capacity = -1 /\ args.env = FALSE /\ args.eager = FALSE /\ args.eagerSeen = FALSE
  BY <1>1, Zenon DEF Declared
<1>5. args \in Attributes
  BY <1>1, Zenon DEF Declared, Attributes
<1>6. Stored(0)
  BY <1>4 DEF Stored
<1> QED BY <1>1, <1>3, <1>4, <1>5, <1>6, Zenon DEF MacroInv

\* The attribute's arguments are stored as they are parsed, one by one.
THEOREM MacroInvariance == JSpec => []MacroInv
<1>1. MacroInv /\ [JNext]_jvars => MacroInv'
  <2> SUFFICES ASSUME MacroInv, [JNext]_jvars PROVE MacroInv'
    BY Zenon
  <2>1. CASE UNCHANGED jvars
    <3>1. decl' = decl /\ step' = step /\ rest' = rest /\ args' = args /\ output' = output
      BY <2>1, Zenon DEF jvars
    <3>2. /\ \A k : (Legible(k)' <=> Legible(k)) /\ (Stored(k)' <=> Stored(k))
          /\ (Clear' <=> Clear) /\ (Primary' <=> Primary)
      BY <3>1 DEF Legible, Stored, KeyAt, Clear, Primary, ParenParses
    <3>3. Expanded' <=> Expanded
      BY <3>1, Zenon DEF Expanded, Resolved, Injected
    <3> QED BY <3>1, <3>2, <3>3, Zenon DEF MacroInv, Injected
  <2> QED BY <2>1, ParsePrimaryStep, ParseNamedEnds, ParseNamedStep, ExpandStep, Zenon DEF JNext
<1> QED BY <1>1, DeclaredInv, PTL DEF JSpec

\* Counting the arguments of a key tells whether there is one, and whether it is the only one.
LEMMA CountFacts ==
  ASSUME decl.l \in Seq(NamedArgs), NEW K
  PROVE  /\ Count(K) \in Nat
         /\ Count(K) = 0 <=> \A n \in 1..Len(decl.l) : KeyAt(n) # K
         /\ Count(K) <= 1 <=> \A m, n \in 1..Len(decl.l) : KeyAt(m) = K /\ KeyAt(n) = K => m = n
<1> DEFINE S == {n \in 1..Len(decl.l) : decl.l[n].key = K}
<1>1. IsFiniteSet(S) /\ Cardinality(S) \in Nat
  <2>1. IsFiniteSet(1..Len(decl.l)) /\ S \subseteq 1..Len(decl.l)
    BY FS_Interval
  <2> QED BY <2>1, FS_Subset, FS_CardinalityType, Zenon
<1>2. (Cardinality(S) = 0 <=> S = {}) /\ (Cardinality(S) = 1 <=> \E x : S = {x})
  BY <1>1, FS_EmptySet, FS_Singleton, Zenon
<1>3. S = {} <=> \A n \in 1..Len(decl.l) : KeyAt(n) # K
  BY Zenon DEF KeyAt
<1>4. S = {} \/ (\E x : S = {x}) <=>
        \A m, n \in 1..Len(decl.l) : KeyAt(m) = K /\ KeyAt(n) = K => m = n
  <2>1. S = {} \/ (\E x : S = {x}) <=> \A m, n \in S : m = n
    <3>1. ASSUME \A m, n \in S : m = n, NEW x \in S PROVE S = {x}
      BY <3>1, Zenon
    <3> HIDE DEF S
    <3> QED BY <3>1, Zenon
  <2> QED BY <2>1, Zenon DEF KeyAt
<1>5. Count(K) = Cardinality(S)
  BY Zenon DEF Count
<1> HIDE DEF S
<1>6. Count(K) <= 1 <=> Count(K) = 0 \/ Count(K) = 1
  BY <1>1, <1>5
<1> QED BY <1>1, <1>2, <1>3, <1>4, <1>5, <1>6, Zenon

\* The two constructors give the same value or none, and a helper without a Result panics
\* only where the provider's own code does: what can fail otherwise has a Result.
LEMMA WorldsAgree ==
  ASSUME Expanded, decl.i \in Items, NEW w \in Worlds
  PROVE  /\ (Resolve(w) \in Values \/ Managed(w) \in Values) => Resolve(w) = Managed(w)
         /\ Helper(w) = "panic" => w.own = "panic"
<1>1. /\ w.dep \in {"ok", "retryable", "fatal"} /\ w.own \in {"ok", "retryable", "fatal", "panic"}
      /\ Values = {"env", "default", "built"}
  BY Zenon DEF Worlds, Values
<1>2. output.ctor \in {"requiredEnv", "default", "fields", "fn"} \cup AddrTemplates
      /\ \A c \in AddrTemplates : c \notin {"requiredEnv", "default", "fields", "fn"}
  BY Zenon DEF Expanded, AddrTemplates
<1>3. CASE output.ctor = "requiredEnv"
  <2>1. Framework(w) \in {"env", "fatal"} /\ Managed(w) = Framework(w)
    BY <1>3, Zenon DEF Framework, Managed
  <2>2. output.style = "Fallible"
    BY <1>3, Zenon DEF Expanded
  <2> QED BY <1>1, <2>1, <2>2, Zenon DEF Resolve, Helper
<1>4. CASE output.ctor = "default"
  <2>1. Framework(w) \in {"env", "default"} /\ Managed(w) = Framework(w)
    BY <1>4, Zenon DEF Framework, Managed, DefaultValue
  <2> QED BY <1>1, <2>1, Zenon DEF Resolve, Helper
<1>5. CASE output.ctor \in {"fields", "fn"} /\ Resolved # {} /\ w.dep # "ok"
  <2>1. Framework(w) = "dependency" /\ Managed(w) \in {w.dep, "fatal"}
    BY <1>5, Zenon DEF Framework, Managed
  <2>2. output.style = "Fallible"
    BY <1>5, Zenon DEF Expanded, Resolved
  <2> QED BY <1>1, <1>5, <2>1, <2>2, Zenon DEF Resolve, Helper
<1>6. CASE output.ctor \in {"fields", "fn"} /\ ~(Resolved # {} /\ w.dep # "ok")
  <2>1. /\ Framework(w) = IF Own(w) = "ok" THEN "built"
                          ELSE IF Own(w) = "retryable" THEN "retrying" ELSE Own(w)
        /\ Managed(w) = IF Own(w) = "ok" THEN "built" ELSE Own(w)
    BY <1>6, Zenon DEF Framework, Managed
  <2>2. Own(w) \in {"ok", w.own}
    BY Zenon DEF Own
  <2>3. Own(w) \in {"retryable", "fatal"} => output.style = "Fallible"
    BY <1>6, Zenon DEF Expanded, Own
  <2> QED BY <1>1, <2>1, <2>2, <2>3, Zenon DEF Resolve, Helper
<1>7. CASE output.ctor \in AddrTemplates
  <2>1. /\ Framework(w) = IF w.own = "ok" THEN AddressOf(w)
                          ELSE IF w.own = "retryable" THEN "retrying" ELSE "fatal"
        /\ Managed(w) = IF w.own = "ok" THEN AddressOf(w) ELSE IF w.own = "panic" THEN "fatal" ELSE w.own
    BY <1>2, <1>7, Zenon DEF Framework, Managed
  <2>2. AddressOf(w) \in {"env", "default"} /\ output.style = "Fallible"
    BY <1>7, Zenon DEF AddressOf, Expanded
  <2> QED BY <1>1, <2>1, <2>2, Zenon DEF Resolve, Helper
<1> QED BY <1>2, <1>3, <1>4, <1>5, <1>6, <1>7, Zenon

\* ProviderArgs::parse and the expansion it drives are right for attributes of any length:
\* what is accepted is unambiguous and means what is written, the registry entry names every
\* dependency the constructors resolve, and resolve() and resolve_managed() agree.
THEOREM ProvidersAreFaithful == JSpec => []ProviderFaithful
<1>1. MacroInv => ProviderFaithful
  <2> SUFFICES ASSUME MacroInv PROVE ProviderFaithful
    BY Zenon
  <2>1. decl.i \in Items /\ decl.p \in Primaries /\ decl.l \in Seq(NamedArgs) /\ args \in Attributes
    BY Zenon DEF MacroInv
  <2> DEFINE clear == /\ \A k \in {"env", "capacity", "eager"} : Count(k) <= 1
                      /\ Count("other") = 0 /\ ~Written("capacity", "zero") /\ ~Written("capacity", "str")
                      /\ Count("capacity") = 1 => decl.p.kind = "Template"
                      /\ decl.p.kind = "Template" => ParenParses(decl.p)
  <2>2. \A n \in 1..Len(decl.l) : decl.l[n] \in NamedArgs
    BY <2>1
  <2>3. \A n \in 1..Len(decl.l) : KeyAt(n) \in {"env", "capacity", "eager", "other"}
    BY <2>2, Zenon DEF KeyAt, NamedArgs
  <2>4. ~Written("capacity", "zero") /\ ~Written("capacity", "str") <=>
          \A n \in 1..Len(decl.l) : KeyAt(n) = "capacity" => decl.l[n].val = "num"
    <3>1. ASSUME NEW n \in 1..Len(decl.l)
          PROVE  decl.l[n] = [key |-> "capacity", val |-> "zero"]
                   \/ decl.l[n] = [key |-> "capacity", val |-> "str"]
                 <=> KeyAt(n) = "capacity" /\ decl.l[n].val # "num"
      <4>1. CASE KeyAt(n) # "capacity"
        BY <4>1 DEF KeyAt
      <4>2. CASE KeyAt(n) = "capacity"
        <5>1. decl.l[n] \in [key : {"capacity"}, val : {"zero", "num", "str"}]
          BY <2>2, <4>2, Zenon DEF KeyAt, NamedArgs
        <5> QED BY <4>2, <5>1
      <4> QED BY <4>1, <4>2, Zenon
    <3> QED BY <3>1, Zenon DEF Written
  <2>5. Count("capacity") \in Nat /\ Count("env") \in Nat
        /\ (Count("capacity") = 0 <=> \A n \in 1..Len(decl.l) : KeyAt(n) # "capacity")
        /\ (Count("env") = 0 <=> \A n \in 1..Len(decl.l) : KeyAt(n) # "env")
    BY <2>1, CountFacts, Zenon
  <2>6. clear <=> Clear
    <3>1. Count("other") = 0 <=> \A n \in 1..Len(decl.l) : KeyAt(n) # "other"
      BY <2>1, CountFacts, Zenon
    <3>2. (\A k \in {"env", "capacity", "eager"} : Count(k) <= 1) /\ Count("other") = 0 <=>
            /\ \A m, n \in 1..Len(decl.l) : m # n => KeyAt(m) # KeyAt(n)
            /\ \A n \in 1..Len(decl.l) : KeyAt(n) # "other"
      <4>1. \A k \in {"env", "capacity", "eager"} : Count(k) <= 1 <=>
              \A m, n \in 1..Len(decl.l) : KeyAt(m) = k /\ KeyAt(n) = k => m = n
        BY <2>1, CountFacts, Zenon
      <4> QED BY <2>3, <3>1, <4>1
    <3>3. Count("capacity") <= 1 =>
            (Count("capacity") = 1 <=> \E n \in 1..Len(decl.l) : KeyAt(n) = "capacity")
      BY <2>5
    <3> QED BY <2>4, <3>1, <3>2, <3>3, Zenon DEF Clear, Legible
  <2>7. ASSUME step \in {"expand", "done"}
        PROVE  /\ clear
               /\ args.env = (Count("env") = 1) /\ args.eager = Written("eager", "true")
               /\ args.capacity = IF Count("capacity") = 1 THEN 5 ELSE -1
    <3>1. Stored(Len(decl.l)) /\ clear
      BY <2>6, <2>7, Zenon DEF MacroInv
    <3>2. Count("env") <= 1 /\ Count("capacity") <= 1
      BY <3>1, Zenon
    <3> HIDE DEF clear
    <3>3. Count("env") = 1 <=> \E n \in 1..Len(decl.l) : KeyAt(n) = "env"
      BY <2>5, <3>2
    <3>4. Count("capacity") = 1 <=> \E n \in 1..Len(decl.l) : KeyAt(n) = "capacity"
      BY <2>5, <3>2
    <3>5. args.capacity \in {-1, 5}
      BY <2>1, Zenon DEF Attributes
    <3>6. args.capacity = IF Count("capacity") = 1 THEN 5 ELSE -1
      BY <3>1, <3>4, <3>5, Zenon DEF Stored
    <3>7. args.env \in BOOLEAN /\ args.eager \in BOOLEAN
      BY <2>1, Zenon DEF Attributes
    <3>8. args.env = (Count("env") = 1)
      BY <3>1, <3>3, <3>7, Zenon DEF Stored
    <3>9. args.eager = Written("eager", "true")
      BY <3>1, <3>7, Zenon DEF Stored, Written
    <3> QED BY <3>1, <3>6, <3>8, <3>9, Zenon
  <2>8. ASSUME step = "error"
        PROVE  \/ ~clear
               \/ decl.i.item = "fn" /\ Injected(decl.i.types) # DOMAIN decl.i.types
               \/ decl.i.item # "fn" /\ decl.p.name \in AddrTemplates /\ decl.p.paren = "none"
    BY <2>6, <2>8, Zenon DEF MacroInv
  <2>9. AcceptedAsWritten
    BY <2>7, <2>8, Zenon DEF AcceptedAsWritten
  <2>10. ASSUME step = "done" PROVE Expanded
    BY <2>10, Zenon DEF MacroInv
  <2>11. step = "done" => Resolved = output.params
    BY <2>10, Zenon DEF Expanded
  <2> QED BY <2>1, <2>9, <2>10, <2>11, WorldsAgree, Zenon DEF ProviderFaithful
<1> QED BY <1>1, MacroInvariance, PTL

(* ------------------------------ DaemonBuilder ------------------------------ *)

\* The filters, the daemon builders and the daemons there can be.
Filters == [include : SUBSET (Tags \cup {IsolationTag}), exclude : SUBSET Tags]

Registries == {<<>>} \cup {<<RegistryBuild(1, f)>> : f \in Filters}

KitFields ==
  [from : {"new", "sandbox"}, registry : Registries,
   restart : {DefaultPolicy, TestingPolicy} \cup Policies, user : [ConfigTypes -> SUBSET Policies],
   infra : SUBSET (Tags \cup {LogTag}), selects : BOOLEAN]

\* A simulation's builder keeps the isolated registry until a caller gives it one.
Kits == {k \in KitFields : k.from = "sandbox" /\ ~k.selects => k.registry = IsolatedRegistry}

BuiltFrom(k) ==
  [from |-> k.from, services |-> Merged(Chosen(k), k.infra), restart |-> k.restart,
   configs |-> Configs(k), facts |-> FactsOf(k), user |-> k.user, infra |-> k.infra,
   selects |-> k.selects]

KitInv ==
  /\ filter \in Filters
  /\ kit \in {<<>>} \cup {<<k>> : k \in Kits}
  /\ built \in Seq({BuiltFrom(k) : k \in Kits})

\* A list that a filter gives: every service under its entry's number.
LEMMA ListShape ==
  ASSUME NEW n, NEW f
  PROVE  /\ Passing(f) = {} => DOMAIN RegistryBuild(n, f) = {}
         /\ \A p \in DOMAIN RegistryBuild(n, f) :
                                         /\ p[1] = n /\ p[2] \in Passing(f) /\ p = <<n, p[2]>>
                                         /\ p[2] \in DOMAIN Entries /\ p[2] \in Nat
                                         /\ RegistryBuild(n, f)[p].id = p[2] - 1
                                         /\ RegistryBuild(n, f)[p].entry = p[2]
<1>1. DOMAIN RegistryBuild(n, f) = {n} \X Passing(f)
  BY Zenon DEF RegistryBuild
<1>2. ASSUME NEW p \in {n} \X Passing(f)
      PROVE  /\ p[1] = n /\ p[2] \in Passing(f) /\ p = <<n, p[2]>>
             /\ p[2] \in DOMAIN Entries /\ p[2] \in Nat
             /\ RegistryBuild(n, f)[p].id = p[2] - 1
             /\ RegistryBuild(n, f)[p].entry = p[2]
  <2>1. p[1] = n /\ p[2] \in Passing(f) /\ p = <<n, p[2]>>
    OBVIOUS
  <2>2. p[2] \in DOMAIN Entries /\ p[2] \in Nat
    BY <2>1, BuilderAssumption, Zenon DEF Passing
  <2>3. RegistryBuild(n, f)[p] = [id |-> p[2] - 1, entry |-> p[2]]
    BY Zenon DEF RegistryBuild
  <2> QED BY <2>1, <2>2, <2>3
<1>3. Passing(f) = {} => {n} \X Passing(f) = {}
  OBVIOUS
<1>4. \A p \in DOMAIN RegistryBuild(n, f) : p \in {n} \X Passing(f)
  BY <1>1
<1> QED BY <1>1, <1>2, <1>3, <1>4, Zenon

\* No entry has the tag of new_isolated.
LEMMA IsolatedIsEmpty == Passing([NoFilter EXCEPT !.include = {IsolationTag}]) = {}
<1> DEFINE f == [NoFilter EXCEPT !.include = {IsolationTag}]
<1>1. f.include = {IsolationTag}
  BY DEF NoFilter
<1> HIDE DEF f
<1>2. \A i \in DOMAIN Entries : Entries[i] \cap f.include = {}
  BY <1>1, BuilderAssumption
<1>3. f.include # {}
  BY <1>1
<1>4. Passing(f) = {}
  BY <1>2, <1>3 DEF Passing
<1> QED BY <1>4, Zenon DEF f

\* What the registry's list and the infrastructure's make together: no entry twice, and
\* where the registry selects nothing, only what an infra tag names.
LEMMA MergedShape ==
  ASSUME NEW f, NEW infra
  PROVE  LET S == Merged(RegistryBuild(1, f), infra)
         IN  /\ \A p \in DOMAIN S : /\ p[2] \in DOMAIN Entries /\ p[2] \in Nat
                                    /\ S[p].id = p[2] - 1 /\ S[p].entry = p[2]
             /\ \A p, q \in DOMAIN S : p[2] = q[2] => p = q
             /\ Passing(f) = {} => \A p \in DOMAIN S : infra \cap Entries[p[2]] # {}
<1> DEFINE R == RegistryBuild(1, f)
           g == [NoFilter EXCEPT !.include = infra]
           E == RegistryBuild(2, g)
           A == {p \in DOMAIN E : E[p].id \notin Ids(R)}
           S == Merged(R, infra)
<1>1. /\ Passing(f) = {} => DOMAIN R = {}
      /\ \A p \in DOMAIN R : /\ p[1] = 1 /\ p[2] \in Passing(f) /\ p = <<1, p[2]>>
                             /\ p[2] \in DOMAIN Entries /\ p[2] \in Nat
                             /\ R[p].id = p[2] - 1 /\ R[p].entry = p[2]
  BY ListShape, Zenon
<1>2. /\ Passing(g) = {} => DOMAIN E = {}
      /\ \A p \in DOMAIN E : /\ p[1] = 2 /\ p[2] \in Passing(g) /\ p = <<2, p[2]>>
                             /\ p[2] \in DOMAIN Entries /\ p[2] \in Nat
                             /\ E[p].id = p[2] - 1 /\ E[p].entry = p[2]
  BY ListShape, Zenon
<1>3. g.include = infra
  BY DEF NoFilter
<1>4. CASE infra = {}
  <2>1. S = R
    BY <1>4, Zenon DEF Merged
  <2> HIDE DEF S, R
  <2>2. Passing(f) = {} => DOMAIN S = {}
    BY <1>1, <2>1
  <2>3. \A p \in DOMAIN S : /\ p[2] \in DOMAIN Entries /\ p[2] \in Nat
                            /\ S[p].id = p[2] - 1 /\ S[p].entry = p[2]
    BY <1>1, <2>1, Zenon
  <2>4. \A p, q \in DOMAIN S : p[2] = q[2] => p = q
    BY <1>1, <2>1, Zenon
  <2> QED BY <2>2, <2>3, <2>4, Zenon DEF S, R
<1>5. CASE infra # {}
  <2>1. S = [p \in DOMAIN R \cup A |-> IF p \in A THEN E[p] ELSE R[p]]
    BY <1>5, Zenon DEF Merged
  <2>2. A \subseteq DOMAIN E /\ \A p \in A : E[p].id \notin Ids(R)
    BY Zenon
  <2>3. \A p \in DOMAIN R : R[p].id \in Ids(R)
    BY Zenon DEF Ids
  <2> HIDE DEF S, R, E, A
  <2>4. DOMAIN S = DOMAIN R \cup A
    BY <2>1, Zenon
  <2>5. \A p \in DOMAIN S : S[p] = IF p \in A THEN E[p] ELSE R[p]
    BY <2>1, <2>4, Zenon
  <2>6. \A p \in DOMAIN S : /\ p[2] \in DOMAIN Entries /\ p[2] \in Nat
                            /\ S[p].id = p[2] - 1 /\ S[p].entry = p[2]
    BY <1>1, <1>2, <2>2, <2>4, <2>5, Zenon
  <2>7. ASSUME NEW p \in DOMAIN R, NEW q \in A PROVE p[2] # q[2]
    <3>1. R[p].id = p[2] - 1 /\ E[q].id = q[2] - 1
      BY <1>1, <1>2, <2>2, <2>7, Zenon
    <3>2. R[p].id # E[q].id
      BY <2>2, <2>3, <2>7, Zenon
    <3> QED BY <3>1, <3>2, Zenon
  <2>8. ASSUME NEW p \in DOMAIN S, NEW q \in DOMAIN S, p[2] = q[2] PROVE p = q
    <3>1. CASE p \in DOMAIN R /\ q \in DOMAIN R
      BY <1>1, <2>8, <3>1, Zenon
    <3>2. CASE p \in A /\ q \in A
      BY <1>2, <2>2, <2>8, <3>2, Zenon
    <3>3. CASE p \in DOMAIN R /\ q \in A
      BY <2>7, <2>8, <3>3, Zenon
    <3>4. CASE p \in A /\ q \in DOMAIN R
      BY <2>7, <2>8, <3>4, Zenon
    <3> QED BY <2>4, <3>1, <3>2, <3>3, <3>4, Zenon
  <2>9. ASSUME Passing(f) = {}, NEW p \in DOMAIN S PROVE infra \cap Entries[p[2]] # {}
    <3>1. DOMAIN R = {}
      BY <1>1, <2>9
    <3>2. p[2] \in Passing(g)
      BY <1>2, <2>2, <2>4, <3>1, Zenon
    <3>3. Entries[p[2]] \cap g.include # {}
      BY <1>3, <1>5, <3>2, Zenon DEF Passing
    <3> HIDE DEF g
    <3> QED BY <1>3, <3>3
  <2> QED BY <2>6, <2>8, <2>9, Zenon DEF S, R
<1> QED BY <1>4, <1>5, Zenon

\* The list that a daemon begins with is one that a filter gives.
LEMMA ChosenShape ==
  ASSUME NEW k \in Kits
  PROVE  \E f \in Filters : /\ Chosen(k) = RegistryBuild(1, f)
                            /\ k.from = "sandbox" /\ ~k.selects => Passing(f) = {}
<1> DEFINE i == [NoFilter EXCEPT !.include = {IsolationTag}]
<1>1. k.registry \in Registries /\ (k.from = "sandbox" /\ ~k.selects => k.registry = IsolatedRegistry)
  BY DEF Kits, KitFields
<1>2. NoFilter \in Filters /\ i \in Filters
  BY DEF NoFilter, Filters
<1>3. \A R : <<R>> # <<>> /\ <<R>>[1] = R
  OBVIOUS
<1>4. CASE k.from = "sandbox" /\ ~k.selects
  <2>1. Chosen(k) = RegistryBuild(1, i)
    BY <1>1, <1>3, <1>4, Zenon DEF Chosen, IsolatedRegistry
  <2> QED BY <1>2, <2>1, IsolatedIsEmpty, Zenon
<1>5. CASE ~(k.from = "sandbox" /\ ~k.selects)
  <2>1. CASE k.registry = <<>>
    BY <1>2, <1>5, <2>1, Zenon DEF Chosen
  <2>2. CASE k.registry # <<>>
    <3>1. PICK f \in Filters : k.registry = <<RegistryBuild(1, f)>>
      BY <1>1, <2>2, Zenon DEF Registries
    <3>2. Chosen(k) = RegistryBuild(1, f)
      BY <1>3, <2>2, <3>1, Zenon DEF Chosen
    <3> QED BY <1>5, <3>2, Zenon
  <2> QED BY <2>1, <2>2, Zenon
<1> QED BY <1>4, <1>5, Zenon

\* Every daemon a builder can make is what the builder was asked for.
DaemonOk(d) ==
  /\ \A p \in DOMAIN d.services : /\ p[2] \in DOMAIN Entries /\ p[2] \in Nat
                                  /\ d.services[p].id = p[2] - 1 /\ d.services[p].entry = p[2]
  /\ \A p, q \in DOMAIN d.services : p[2] = q[2] => p = q
  /\ d.facts = Ids(d.services)
  /\ TriggerPolicies(d, {}) = [restart |-> IF d.user["restart"] = {} THEN {d.restart}
                                           ELSE d.user["restart"],
                               scaling |-> d.user["scaling"]]
  /\ d.from = "sandbox" /\ ~d.selects =>
       \A p \in DOMAIN d.services : d.infra \cap Entries[d.services[p].entry] # {}

LEMMA KitMakes ==
  ASSUME NEW k \in Kits
  PROVE  DaemonOk(BuiltFrom(k))
<1> DEFINE d == BuiltFrom(k)
           S == Merged(Chosen(k), k.infra)
<1>1. /\ d.from = k.from /\ d.services = S /\ d.restart = k.restart /\ d.configs = Configs(k)
      /\ d.facts = FactsOf(k) /\ d.user = k.user /\ d.infra = k.infra /\ d.selects = k.selects
  BY DEF BuiltFrom
<1>2. PICK f \in Filters : /\ Chosen(k) = RegistryBuild(1, f)
                           /\ k.from = "sandbox" /\ ~k.selects => Passing(f) = {}
  BY ChosenShape, Zenon
<1>3. /\ \A p \in DOMAIN S : /\ p[2] \in DOMAIN Entries /\ p[2] \in Nat
                              /\ S[p].id = p[2] - 1 /\ S[p].entry = p[2]
      /\ \A p, q \in DOMAIN S : p[2] = q[2] => p = q
      /\ Passing(f) = {} => \A p \in DOMAIN S : k.infra \cap Entries[p[2]] # {}
  <2> DEFINE T == Merged(RegistryBuild(1, f), k.infra)
  <2>1. /\ \A p \in DOMAIN T : /\ p[2] \in DOMAIN Entries /\ p[2] \in Nat
                              /\ T[p].id = p[2] - 1 /\ T[p].entry = p[2]
        /\ \A p, q \in DOMAIN T : p[2] = q[2] => p = q
        /\ Passing(f) = {} => \A p \in DOMAIN T : k.infra \cap Entries[p[2]] # {}
    BY MergedShape, Zenon
  <2>2. S = T
    BY <1>2, Zenon
  <2> HIDE DEF S, T
  <2> QED BY <2>1, <2>2, Zenon
<1>4. d.facts = Ids(d.services)
  BY <1>1, Zenon DEF FactsOf
<1>5. TriggerPolicies(d, {}) = [restart |-> IF d.user["restart"] = {} THEN {d.restart}
                                            ELSE d.user["restart"],
                                scaling |-> d.user["scaling"]]
  <2>1. k.user \in [ConfigTypes -> SUBSET Policies]
    BY DEF Kits, KitFields
  <2>2. "restart" \in ConfigTypes /\ "scaling" \in ConfigTypes
    BY Zenon DEF ConfigTypes
  <2>3. /\ Configs(k)["restart"] = IF k.user["restart"] = {} THEN {k.restart} ELSE k.user["restart"]
        /\ Configs(k)["scaling"] = k.user["scaling"]
    BY <2>1, <2>2 DEF Configs
  <2>4. Configs(k)["restart"] # {}
    BY <2>3
  <2> HIDE DEF d
  <2>5. /\ d.configs["restart"] = IF d.user["restart"] = {} THEN {d.restart} ELSE d.user["restart"]
        /\ d.configs["scaling"] = d.user["scaling"] /\ d.configs["restart"] # {}
    BY <1>1, <2>3, <2>4, Zenon
  <2> QED BY <2>5 DEF TriggerPolicies
<1> HIDE DEF d, S
<1>6. d.from = "sandbox" /\ ~d.selects =>
        \A p \in DOMAIN d.services : d.infra \cap Entries[d.services[p].entry] # {}
  BY <1>1, <1>2, <1>3, Zenon
<1>7. /\ \A p \in DOMAIN d.services : /\ p[2] \in DOMAIN Entries /\ p[2] \in Nat
                                     /\ d.services[p].id = p[2] - 1 /\ d.services[p].entry = p[2]
      /\ \A p, q \in DOMAIN d.services : p[2] = q[2] => p = q
  BY <1>1, <1>3, Zenon
<1>8. DaemonOk(d)
  BY <1>4, <1>5, <1>6, <1>7, Zenon DEF DaemonOk
<1> QED BY <1>8, Zenon DEF d

LEMMA KitInvInit == KInit => KitInv
<1> SUFFICES ASSUME KInit PROVE KitInv
  OBVIOUS
<1>1. filter \in Filters
  BY DEF KInit, NoFilter, Filters
<1>2. kit \in {<<>>} \cup {<<k>> : k \in Kits}
  BY Zenon DEF KInit
<1> DEFINE D == {BuiltFrom(k) : k \in Kits}
<1> HIDE DEF D
<1>3. built \in Seq(D)
  BY DEF KInit
<1> QED BY <1>1, <1>2, <1>3, Zenon DEF KitInv, D

\* A builder that New or Mock begins.
LEMMA KitBegins ==
  ASSUME KitInv, New \/ \E logging \in BOOLEAN : Mock(logging)
  PROVE  KitInv'
<1>1. NoConfig \in [ConfigTypes -> SUBSET Policies]
  BY DEF NoConfig
<1>2. [NoFilter EXCEPT !.include = {IsolationTag}] \in Filters
  BY DEF NoFilter, Filters
<1>3. <<>> \in Registries /\ IsolatedRegistry \in Registries
  BY <1>2, Zenon DEF Registries, IsolatedRegistry
<1>4. filter' = filter /\ built' = built
  BY Zenon DEF New, Mock
<1>5. CASE New
  <2> DEFINE k == [from |-> "new", registry |-> <<>>, restart |-> DefaultPolicy,
                   user |-> NoConfig, infra |-> {}, selects |-> FALSE]
  <2>1. k \in KitFields
    BY <1>1, <1>3 DEF KitFields
  <2>2. k.from # "sandbox"
    OBVIOUS
  <2>3. kit' = <<k>>
    BY <1>5, Zenon DEF New
  <2> HIDE DEF k
  <2>4. k \in Kits
    BY <2>1, <2>2, Zenon DEF Kits
  <2> QED BY <1>4, <2>3, <2>4, Zenon DEF KitInv
<1>6. ASSUME NEW logging \in BOOLEAN, Mock(logging) PROVE KitInv'
  <2> DEFINE k == [from |-> "sandbox", registry |-> IsolatedRegistry, restart |-> TestingPolicy,
                   user |-> NoConfig, infra |-> IF logging THEN {LogTag} ELSE {}, selects |-> FALSE]
  <2>1. k \in KitFields
    BY <1>1, <1>3 DEF KitFields
  <2>2. k.registry = IsolatedRegistry
    OBVIOUS
  <2>3. kit' = <<k>>
    BY <1>6, Zenon DEF Mock
  <2> HIDE DEF k
  <2>4. k \in Kits
    BY <2>1, <2>2, Zenon DEF Kits
  <2> QED BY <1>4, <2>3, <2>4, Zenon DEF KitInv
<1> QED BY <1>5, <1>6, Zenon

\* A setter of the daemon builder.
LEMMA KitSet ==
  ASSUME KitInv, kit # <<>>,
         WithRegistry \/ WithRestartPolicy \/ WithTriggerConfig \/ WithInfraTags
  PROVE  KitInv'
<1>1. PICK k \in Kits : kit = <<k>>
  BY Zenon DEF KitInv
<1>2. kit[1] = k
  BY <1>1
<1>3. k \in KitFields /\ (k.from = "sandbox" /\ ~k.selects => k.registry = IsolatedRegistry)
  BY Zenon DEF Kits
<1>4. filter \in Filters /\ NoFilter \in Filters
  BY DEF KitInv, NoFilter, Filters
<1>5. built' = built /\ filter' \in Filters
  BY <1>4, Zenon DEF WithRegistry, WithRestartPolicy, WithTriggerConfig, WithInfraTags
<1>6. SUFFICES \E n \in Kits : kit' = <<n>>
  BY <1>5, <1>6, Zenon DEF KitInv
<1>7. CASE WithRegistry
  <2> DEFINE r == <<RegistryBuild(1, filter)>>
             n == [k EXCEPT !.registry = r, !.selects = TRUE]
  <2>1. kit' = <<n>>
    BY <1>2, <1>7, Zenon DEF WithRegistry
  <2>2. r \in Registries
    BY <1>4, Zenon DEF Registries
  <2> HIDE DEF r
  <2>3. n \in KitFields /\ n.selects
    BY <1>3, <2>2 DEF KitFields
  <2> HIDE DEF n
  <2> QED BY <2>1, <2>3, Zenon DEF Kits
<1>8. CASE WithRestartPolicy
  <2>1. PICK p \in Policies : kit' = <<[k EXCEPT !.restart = p]>>
    BY <1>2, <1>8, Zenon DEF WithRestartPolicy
  <2> DEFINE n == [k EXCEPT !.restart = p]
  <2>2. n \in KitFields /\ n.from = k.from /\ n.selects = k.selects /\ n.registry = k.registry
    BY <1>3 DEF KitFields
  <2>3. kit' = <<n>>
    BY <2>1, Zenon
  <2> HIDE DEF n
  <2> QED BY <1>3, <2>2, <2>3, Zenon DEF Kits
<1>9. CASE WithTriggerConfig
  <2>1. PICK t \in ConfigTypes, p \in Policies : kit' = <<[k EXCEPT !.user[t] = {p}]>>
    BY <1>2, <1>9, Zenon DEF WithTriggerConfig
  <2> DEFINE n == [k EXCEPT !.user[t] = {p}]
  <2>2. n \in KitFields /\ n.from = k.from /\ n.selects = k.selects /\ n.registry = k.registry
    BY <1>3 DEF KitFields
  <2>3. kit' = <<n>>
    BY <2>1, Zenon
  <2> HIDE DEF n
  <2> QED BY <1>3, <2>2, <2>3, Zenon DEF Kits
<1>10. CASE WithInfraTags
  <2>1. PICK t \in Tags : kit' = <<[k EXCEPT !.infra = @ \cup {t}]>>
    BY <1>2, <1>10, Zenon DEF WithInfraTags
  <2> DEFINE n == [k EXCEPT !.infra = @ \cup {t}]
  <2>2. n \in KitFields /\ n.from = k.from /\ n.selects = k.selects /\ n.registry = k.registry
    BY <1>3 DEF KitFields
  <2>3. kit' = <<n>>
    BY <2>1, Zenon
  <2> HIDE DEF n
  <2> QED BY <1>3, <2>2, <2>3, Zenon DEF Kits
<1> QED BY <1>7, <1>8, <1>9, <1>10, Zenon

LEMMA KitInvStep == KitInv /\ [KNext]_kvars => KitInv'
<1> SUFFICES ASSUME KitInv, [KNext]_kvars PROVE KitInv'
  OBVIOUS
<1>1. CASE New \/ \E logging \in BOOLEAN : Mock(logging)
  BY <1>1, KitBegins, Zenon
<1>2. CASE Filter
  <2>1. PICK t \in Tags, side \in {"include", "exclude"} :
          filter' = [filter EXCEPT ![side] = @ \cup {t}]
    BY <1>2, Zenon DEF Filter
  <2>2. filter \in Filters
    BY Zenon DEF KitInv
  <2>5. filter' \in Filters
    <3>1. CASE side = "include"
      BY <2>1, <2>2, <3>1 DEF Filters
    <3>2. CASE side = "exclude"
      BY <2>1, <2>2, <3>2 DEF Filters
    <3> QED BY <3>1, <3>2, Zenon
  <2> QED BY <1>2, <2>5, Zenon DEF Filter, KitInv
<1>3. CASE kit # <<>> /\ (WithRegistry \/ WithRestartPolicy \/ WithTriggerConfig \/ WithInfraTags)
  BY <1>3, KitSet, Zenon
<1>4. CASE Build
  <2>1. PICK k \in Kits : kit = <<k>>
    BY <1>4, Zenon DEF Build, KitInv
  <2>2. kit[1] = k
    BY <2>1
  <2>3. built' = Append(built, BuiltFrom(k)) /\ kit' = <<>> /\ filter' = filter
    BY <1>4, <2>2, Zenon DEF Build, BuiltFrom
  <2> DEFINE D == {BuiltFrom(n) : n \in Kits}
  <2>4. BuiltFrom(k) \in D /\ built \in Seq(D)
    BY Zenon DEF KitInv
  <2> HIDE DEF D
  <2>5. built' \in Seq(D)
    BY <2>3, <2>4
  <2> QED BY <2>3, <2>5, Zenon DEF KitInv, D
<1>5. CASE UNCHANGED kvars
  BY <1>5, Zenon DEF kvars, KitInv
<1> QED BY <1>1, <1>2, <1>3, <1>4, <1>5, Zenon DEF KNext

LEMMA KitInvSays == KitInv => BuiltAsAsked
<1> SUFFICES ASSUME KitInv PROVE BuiltAsAsked
  OBVIOUS
<1> DEFINE D == {BuiltFrom(k) : k \in Kits}
<1>1. built \in Seq(D)
  BY Zenon DEF KitInv
<1>2. \A d \in D : DaemonOk(d)
  BY KitMakes, Zenon
<1> HIDE DEF D
<1>3. \A i \in DOMAIN built : built[i] \in D
  BY <1>1
<1>4. \A d \in Daemons : DaemonOk(d)
  BY <1>2, <1>3, Zenon DEF Daemons
<1>5. ASSUME NEW a \in Daemons, NEW b \in Daemons, NEW i \in DOMAIN a.services,
             NEW j \in DOMAIN b.services
      PROVE  /\ a.services[i].id = b.services[j].id <=> a.services[i].entry = b.services[j].entry
             /\ a.services[i].id = b.services[j].id => i[2] = j[2]
  <2>1. /\ i[2] \in Nat /\ a.services[i].id = i[2] - 1 /\ a.services[i].entry = i[2]
        /\ j[2] \in Nat /\ b.services[j].id = j[2] - 1 /\ b.services[j].entry = j[2]
    BY <1>4, <1>5, Zenon DEF DaemonOk
  <2> QED BY <2>1
<1>6. ASSUME NEW d \in Daemons, NEW i \in DOMAIN d.services, NEW j \in DOMAIN d.services,
             d.services[i].id = d.services[j].id
      PROVE  i = j
  <2>1. i[2] = j[2]
    BY <1>5, <1>6, Zenon
  <2> QED BY <1>4, <1>6, <2>1, Zenon DEF DaemonOk
<1>7. \A d \in Daemons :
        /\ d.facts = Ids(d.services)
        /\ TriggerPolicies(d, {}) = [restart |-> IF d.user["restart"] = {} THEN {d.restart}
                                                 ELSE d.user["restart"],
                                     scaling |-> d.user["scaling"]]
        /\ d.from = "sandbox" /\ ~d.selects =>
             \A i \in DOMAIN d.services : d.infra \cap Entries[d.services[i].entry] # {}
  BY <1>4, Zenon DEF DaemonOk
<1>8. \A a, b \in Daemons : \A i \in DOMAIN a.services, j \in DOMAIN b.services :
        a.services[i].id = b.services[j].id <=> a.services[i].entry = b.services[j].entry
  BY <1>5, Zenon
<1>9. \A d \in Daemons : \A i, j \in DOMAIN d.services : d.services[i].id = d.services[j].id => i = j
  BY <1>6, Zenon
<1> QED BY <1>7, <1>8, <1>9, Zenon DEF BuiltAsAsked

\* Whatever the registry, the filters and the order of the setters, every daemon a process
\* builds is what its builder was asked for: ids name entries and occur once, every service
\* has a runtime record, triggers get the configured policy or the daemon's, and a
\* simulation that selects nothing runs only what its infra tags name.
THEOREM DaemonsAreAsAsked == KSpec => []BuiltAsAsked
<1>1. KSpec => []KitInv
  BY KitInvInit, KitInvStep, PTL DEF KSpec
<1>2. KitInv => BuiltAsAsked
  BY KitInvSays, Zenon
<1> QED BY <1>1, <1>2, PTL
=============================================================================
