---------------------------- MODULE BridgeProofs -----------------------------
(***************************************************************************)
(* ControllerBridge for any requests, reads and RETIRED_SEQUENCE_LIMIT: the  *)
(* events reach the handlers in the order the device sent them, and with    *)
(* the commands of StreamProofs, nothing crosses on a connection.           *)
(***************************************************************************)
EXTENDS StreamProofs

-----------------------------------------------------------------------------
(* ControllerBridge: the events                                            *)

Sent(es) == {n \in Nat : \E i \in 1..Len(es) : es[i] = Event(n)}
Coming(ms) == {n \in Nat : \E i \in 1..Len(ms) : ms[i] \in {Event(n), <<"head", Event(n)>>}}
Precede(A, B) == \A a \in A, b \in B : a < b
Ordered(es) == \A i, j \in 1..Len(es), m, n \in Nat : i < j /\ es[i] = Event(m) /\ es[j] = Event(n) => m < n

\* Log, queue, codec and transport hold the device's events in the order it sent them.
EventOrder ==
  /\ reads \in Nat
  /\ Ordered(log) /\ Ordered(queue) /\ \A k \in 1..Len(inbound) : Ordered(inbound[k])
  /\ Precede(Sent(log), Sent(queue))
  /\ Precede(Sent(log) \cup Sent(queue), Sent(<<carry>>))
  /\ \A k \in 1..Len(inbound) :
       Precede(Sent(log) \cup Sent(queue) \cup Sent(<<carry>>), Coming(inbound[k]))
  /\ \A k, m \in 1..Len(inbound) : k < m => Precede(Coming(inbound[k]), Coming(inbound[m]))
  /\ Precede(Sent(log) \cup Sent(queue) \cup Sent(<<carry>>), {2 * reads})
  /\ \A k \in 1..Len(inbound) : Precede(Coming(inbound[k]), {2 * reads})

Interruptions == {<<"interrupted", n>> : n \in Nat}
Recoveries == {<<"recovered", n>> : n \in Nat}
Queueable == EventFrames \cup Recoveries \cup {Final, None}
LogEntries == Queueable \cup Interruptions \cup {Bad}

\* An interruption at the end of the log has its recovery next in the queue, and the
\* final event still ahead of it.
LinkOrder ==
  /\ links \in Nat
  /\ queue \in Seq(Queueable) /\ log \in Seq(LogEntries)
  /\ final \in BOOLEAN /\ (host = "closing" => final)
  /\ \A i \in 1..Len(log) : log[i] \in Interruptions /\ i < Len(log)
                           => log[i + 1] = <<"recovered", log[i][2]>>
  /\ Len(log) > 0 /\ log[Len(log)] \in Interruptions =>
       ~final /\ queue = <<<<"recovered", log[Len(log)][2]>>>>

BridgeInv == CommandInv /\ EventOrder /\ LinkOrder

-----------------------------------------------------------------------------
(* Proofs about the events                                                 *)

\* A single entry is in order, and holds at most its own event.
LEMMA SentOne ==
  ASSUME NEW e
  PROVE  Sent(<<e>>) = {n \in Nat : e = Event(n)} /\ Ordered(<<e>>)
<1>1. Len(<<e>>) = 1 /\ <<e>>[1] = e /\ 1 \in 1..1 /\ \A i \in 1..1 : i = 1
  OBVIOUS
<1>2. \A n \in Nat : (\E i \in 1..Len(<<e>>) : <<e>>[i] = Event(n)) <=> e = Event(n)
  BY <1>1, Zenon
<1>3. Ordered(<<e>>)
  BY <1>1 DEF Ordered
<1> QED BY <1>2, <1>3, Zenon DEF Sent

\* An event behind all earlier ones keeps a sequence ordered.
LEMMA SentAppend ==
  ASSUME NEW T, NEW es \in Seq(T), NEW e \in T, Ordered(es), Precede(Sent(es), Sent(<<e>>))
  PROVE  Ordered(Append(es, e)) /\ Sent(Append(es, e)) = Sent(es) \cup Sent(<<e>>)
<1>1. PICK k \in Nat, w \in Seq(T) :
        /\ k = Len(es) /\ w = Append(es, e) /\ Len(w) = k + 1
        /\ \A i \in 1..k : w[i] = es[i]
        /\ w[k + 1] = e
  <2>1. Append(es, e) \in Seq(T) /\ Len(Append(es, e)) = Len(es) + 1 /\ Len(es) \in Nat
        /\ Append(es, e)[Len(es) + 1] = e
        /\ \A i \in 1..Len(es) : Append(es, e)[i] = es[i]
    BY AppendProperties
  <2> QED BY <2>1, Zenon
<1>2. /\ \A i \in 1..k + 1 : i \in 1..k \/ i = k + 1
      /\ \A i \in 1..k : i \in 1..k + 1 /\ i < k + 1
      /\ k + 1 \in 1..k + 1 /\ \A i \in 1..k + 1 : ~(k + 1 < i)
  OBVIOUS
<1>3. \A n \in Nat : n \in Sent(<<e>>) <=> e = Event(n)
  BY SentOne, Zenon
<1>4. \A i \in 1..k, m \in Nat : es[i] = Event(m) => m \in Sent(es)
  BY <1>1, Zenon DEF Sent
<1>5. Ordered(w)
  <2> SUFFICES ASSUME NEW i \in 1..k + 1, NEW j \in 1..k + 1, NEW m \in Nat, NEW n \in Nat,
                      i < j, w[i] = Event(m), w[j] = Event(n)
               PROVE  m < n
    BY <1>1, Zenon DEF Ordered
  <2>1. i \in 1..k /\ es[i] = Event(m)
    <3>1. i \in 1..k
      BY <1>2, Zenon
    <3> QED BY <1>1, <3>1, Zenon
  <2>2. CASE j \in 1..k
    BY <1>1, <2>1, <2>2, Zenon DEF Ordered
  <2>3. CASE j = k + 1
    <3>1. n \in Sent(<<e>>) /\ m \in Sent(es)
      BY <1>1, <1>3, <1>4, <2>1, <2>3, Zenon
    <3> QED BY <3>1, Zenon DEF Precede
  <2> QED BY <1>2, <2>2, <2>3, Zenon
<1>6. \A n \in Nat : (\E i \in 1..Len(w) : w[i] = Event(n)) <=>
                     (\E i \in 1..Len(es) : es[i] = Event(n)) \/ e = Event(n)
  <2> SUFFICES ASSUME NEW n \in Nat
               PROVE  (\E i \in 1..k + 1 : w[i] = Event(n)) <=> (\E i \in 1..k : es[i] = Event(n)) \/ e = Event(n)
    BY <1>1, Zenon
  <2> QED BY <1>1, <1>2, Zenon
<1>7. Sent(w) = Sent(es) \cup Sent(<<e>>)
  <2>1. \A n \in Nat : n \in Sent(w) <=> n \in Sent(es) \cup Sent(<<e>>)
    BY <1>3, <1>6, Zenon DEF Sent
  <2>2. Sent(w) \subseteq Nat /\ Sent(es) \subseteq Nat /\ Sent(<<e>>) \subseteq Nat
    BY Zenon DEF Sent
  <2> QED BY <2>1, <2>2, Zenon
<1> QED BY <1>1, <1>5, <1>7, Zenon

\* Taking the first of an ordered sequence leaves the later ones.
LEMMA SentTail ==
  ASSUME NEW T, NEW es \in Seq(T), es # <<>>, Ordered(es)
  PROVE  /\ Ordered(Tail(es)) /\ Tail(es) \in Seq(T) /\ Head(es) \in T
         /\ Sent(<<Head(es)>>) \subseteq Sent(es) /\ Sent(Tail(es)) \subseteq Sent(es)
         /\ Precede(Sent(<<Head(es)>>), Sent(Tail(es)))
<1>1. PICK w \in Seq(T), k \in Nat :
        /\ w = Tail(es) /\ Len(w) = k /\ Len(es) = k + 1
        /\ \A i \in 1..k : w[i] = es[i + 1]
  <2>1. Tail(es) \in Seq(T) /\ Len(Tail(es)) = Len(es) - 1 /\ Len(es) \in Nat
        /\ \A i \in 1..Len(Tail(es)) : Tail(es)[i] = es[i + 1]
    BY HeadTailProperties
  <2>2. Len(Tail(es)) \in Nat /\ Len(es) = Len(Tail(es)) + 1
    BY <2>1
  <2> QED BY <2>1, <2>2, Zenon
<1>2. Head(es) = es[1] /\ Head(es) \in T
  BY HeadTailProperties
<1>3. /\ \A i \in 1..k : i + 1 \in 1..k + 1 /\ 1 < i + 1
      /\ 1 \in 1..k + 1 /\ \A i, j \in 1..k : i < j => i + 1 < j + 1
  OBVIOUS
<1>4. Ordered(w)
  BY <1>1, <1>3 DEF Ordered
<1>5. \A n \in Nat : n \in Sent(<<Head(es)>>) <=> es[1] = Event(n)
  BY <1>2, SentOne, Zenon
<1>6. \A n \in Nat : n \in Sent(w) => \E i \in 1..k : es[i + 1] = Event(n)
  BY <1>1, Zenon DEF Sent
<1>7. \A n \in Nat : n \in Sent(es) <=> \E i \in 1..k + 1 : es[i] = Event(n)
  BY <1>1, Zenon DEF Sent
<1>8. Sent(w) \subseteq Nat /\ Sent(<<Head(es)>>) \subseteq Nat
  BY Zenon DEF Sent
<1>9. Sent(<<Head(es)>>) \subseteq Sent(es) /\ Sent(w) \subseteq Sent(es)
  BY <1>3, <1>5, <1>6, <1>7, <1>8, Zenon
<1>10. Precede(Sent(<<Head(es)>>), Sent(w))
  <2> SUFFICES ASSUME NEW a \in Sent(<<Head(es)>>), NEW b \in Sent(w) PROVE a < b
    BY Zenon DEF Precede
  <2>1. a \in Nat /\ b \in Nat /\ es[1] = Event(a)
    BY <1>5, <1>8, Zenon
  <2>2. PICK i \in 1..k : es[i + 1] = Event(b)
    BY <1>6, <2>1, Zenon
  <2> QED BY <1>1, <1>3, <2>1, <2>2, Zenon DEF Ordered
<1> QED BY <1>1, <1>2, <1>4, <1>9, <1>10, Zenon

\* What is left when one element is taken out.
LEMMA RemoveAtFacts ==
  ASSUME NEW T, NEW es \in Seq(T), NEW i \in 1..Len(es), Ordered(es),
         NEW U, \A j \in 1..Len(es) : j # i => es[j] \in U
  PROVE  /\ RemoveAt(es, i) \in Seq(U)
         /\ Ordered(RemoveAt(es, i)) /\ Sent(RemoveAt(es, i)) \subseteq Sent(es)
<1>1. PICK k \in Nat : k = Len(es)
  OBVIOUS
<1>2. PICK a : a = SubSeq(es, 1, i - 1)
  BY Zenon
<1>3. PICK b : b = SubSeq(es, i + 1, k)
  BY Zenon
<1>4. PICK w : w = RemoveAt(es, i)
  BY Zenon
<1>5. w = a \o b
  BY <1>1, <1>2, <1>3, <1>4, Zenon DEF RemoveAt
<1>6. /\ i \in 1..k /\ i - 1 \in Int /\ i + 1 \in Int /\ i - 1 \in Nat /\ k - i \in Nat
      /\ (i - 1) - 1 + 1 = i - 1 /\ k - (i + 1) + 1 = k - i
      /\ (~(1 <= i - 1) => i - 1 = 0) /\ (~(i + 1 <= k) => k - i = 0)
      /\ (i - 1) + (k - i) = k - 1 /\ k - 1 \in Nat
  BY <1>1
<1>7. a \in Seq(T) /\ Len(a) = i - 1 /\ \A j \in 1..i - 1 : a[j] = es[j]
  <2>1. \A j \in 1..i - 1 : j \in 1..Len(es) /\ es[j] \in T /\ 1 + j - 1 = j
    BY <1>1, <1>6
  <2>2. /\ a \in Seq(T) /\ Len(a) = IF 1 <= i - 1 THEN (i - 1) - 1 + 1 ELSE 0
        /\ \A j \in 1..(i - 1) - 1 + 1 : a[j] = es[1 + j - 1]
    BY <1>6, <1>2, <2>1, SubSeqProperties
  <2> QED BY <1>6, <2>1, <2>2, Zenon
<1>8. b \in Seq(T) /\ Len(b) = k - i /\ \A j \in 1..k - i : b[j] = es[i + j]
  <2>1. \A j \in i + 1..k : j \in 1..Len(es) /\ es[j] \in T
    BY <1>1, <1>6
  <2>2. /\ b \in Seq(T) /\ Len(b) = IF i + 1 <= k THEN k - (i + 1) + 1 ELSE 0
        /\ \A j \in 1..k - (i + 1) + 1 : b[j] = es[i + 1 + j - 1]
    <3>1. i + 1 \in Int /\ k \in Int /\ \A j \in i + 1..k : es[j] \in T
      BY <1>6, <2>1
    <3> QED BY <1>3, <3>1, SubSeqProperties
  <2>3. \A j \in 1..k - i : i + 1 + j - 1 = i + j
    BY <1>6
  <2>4. Len(b) = k - i
    BY <1>6, <2>2, Zenon
  <2>5. \A j \in 1..k - i : b[j] = es[i + j]
    BY <1>6, <2>2, <2>3, Zenon
  <2> QED BY <2>2, <2>4, <2>5, Zenon
<1>9. /\ w \in Seq(T) /\ Len(w) = k - 1
      /\ \A j \in 1..k - 1 : w[j] = es[IF j < i THEN j ELSE j + 1]
  <2>1. /\ w \in Seq(T) /\ Len(w) = Len(a) + Len(b)
        /\ \A j \in 1..Len(a) + Len(b) : w[j] = IF j <= Len(a) THEN a[j] ELSE b[j - Len(a)]
    <3>1. a \in Seq(T) /\ b \in Seq(T)
      BY <1>7, <1>8, Zenon
    <3> QED BY <1>5, <3>1, ConcatProperties, Zenon
  <2>2. Len(w) = k - 1 /\ \A j \in 1..k - 1 : w[j] = IF j <= i - 1 THEN a[j] ELSE b[j - (i - 1)]
    BY <1>6, <1>7, <1>8, <2>1, Zenon
  <2>3. ASSUME NEW j \in 1..k - 1 PROVE w[j] = es[IF j < i THEN j ELSE j + 1]
    <3>1. CASE j < i
      <4>1. j <= i - 1 /\ j \in 1..i - 1
        BY <1>6, <3>1
      <4> QED BY <1>7, <2>2, <3>1, <4>1, Zenon
    <3>2. CASE ~(j < i)
      <4>1. ~(j <= i - 1) /\ j - (i - 1) \in 1..k - i /\ i + (j - (i - 1)) = j + 1
        BY <1>6, <3>2
      <4> QED BY <1>8, <2>2, <3>2, <4>1, Zenon
    <3> QED BY <3>1, <3>2, Zenon
  <2> QED BY <2>1, <2>2, <2>3, Zenon
<1>10. ASSUME NEW j \in 1..k - 1
      PROVE  \E h \in 1..k \ {i} : w[j] = es[h] /\ h = IF j < i THEN j ELSE j + 1
  <2>1. (IF j < i THEN j ELSE j + 1) \in 1..k \ {i}
    BY <1>6
  <2> QED BY <1>9, <2>1, Zenon
<1>11. w \in Seq(U)
  <2>1. \A j \in 1..k - 1 : w[j] \in U
    BY <1>1, <1>10, Zenon
  <2> QED BY <1>9, <2>1
<1>12. Ordered(w)
  <2> SUFFICES ASSUME NEW j \in 1..k - 1, NEW l \in 1..k - 1, NEW m \in Nat, NEW n \in Nat,
                      j < l, w[j] = Event(m), w[l] = Event(n)
               PROVE  m < n
    BY <1>9, Zenon DEF Ordered
  <2>1. PICK h \in 1..k : w[j] = es[h] /\ h = IF j < i THEN j ELSE j + 1
    BY <1>10, Zenon
  <2>2. PICK g \in 1..k : w[l] = es[g] /\ g = IF l < i THEN l ELSE l + 1
    BY <1>10, Zenon
  <2>3. h < g
    BY <1>6, <2>1, <2>2
  <2>4. es[h] = Event(m) /\ es[g] = Event(n)
    BY <2>1, <2>2, Zenon
  <2> QED BY <1>1, <2>3, <2>4, Zenon DEF Ordered
<1>13. Sent(w) \subseteq Sent(es)
  <2>1. ASSUME NEW n \in Nat, NEW j \in 1..k - 1, w[j] = Event(n)
        PROVE  \E h \in 1..k : es[h] = Event(n)
    BY <1>10, <2>1, Zenon
  <2> QED BY <1>1, <1>9, <2>1, Zenon DEF Sent
<1> QED BY <1>1, <1>4, <1>11, <1>12, <1>13, Zenon

\* The events of a read, its reply taken out, in order: what the codec keeps comes after
\* them.
LEMMA EventsOf ==
  ASSUME Reads, NEW ms, ReadOk(ms), Ordered(ms), ms # <<Drop>>, NEW fs, fs = Frames(ms), NEW evs,
         evs = IF Replies(fs) = {} THEN fs ELSE RemoveAt(fs, CHOOSE i \in Replies(fs) : TRUE)
  PROVE  /\ evs \in Seq(EventFrames \cup {Final, None}) /\ Ordered(evs)
         /\ Sent(evs) \subseteq Sent(<<carry>>) \cup Coming(ms)
         /\ Sent(<<CarryAfter(ms)>>) \subseteq Coming(ms)
         /\ Precede(Sent(evs), Sent(<<CarryAfter(ms)>>))
<1>1. /\ fs \in Seq(Takeable) /\ \A i, j \in Replies(fs) : i = j
      /\ fs = <<carry>> \/ (Len(fs) <= Len(ms) /\ \A i \in 1..Len(fs) : fs[i] = ms[i])
  BY FramesFacts, Zenon
<1>2. Len(fs) \in Nat /\ Len(ms) \in Nat /\ ms[1] \in Frame /\ 1 \in 1..Len(ms)
  BY <1>1 DEF ReadOk
<1>3. Ordered(fs) /\ Sent(fs) \subseteq Sent(<<carry>>) \cup Coming(ms)
  <2>1. CASE fs = <<carry>>
    BY <2>1, SentOne, Zenon
  <2>2. CASE Len(fs) <= Len(ms) /\ \A i \in 1..Len(fs) : fs[i] = ms[i]
    <3>1. \A i \in 1..Len(fs) : i \in 1..Len(ms)
      BY <1>2, <2>2
    <3>2. Ordered(fs)
      BY <2>2, <3>1 DEF Ordered
    <3>3. \A n \in Nat, i \in 1..Len(fs) : fs[i] = Event(n) => ms[i] \in {Event(n), <<"head", Event(n)>>}
      BY <2>2, Zenon
    <3>4. Sent(fs) \subseteq Coming(ms)
      BY <3>1, <3>3, Zenon DEF Sent, Coming
    <3> QED BY <3>2, <3>4, Zenon
  <2> QED BY <1>1, <2>1, <2>2, Zenon
<1>4. \A i \in 1..Len(fs) : i \notin Replies(fs) => fs[i] \in EventFrames \cup {Final, None}
  <2> SUFFICES ASSUME NEW i \in 1..Len(fs), i \notin Replies(fs)
               PROVE  fs[i] \in EventFrames \cup {Final, None}
    BY Zenon
  <2>1. fs[i] \in Takeable /\ fs[i][1] # "reply"
    BY <1>1 DEF Replies
  <2> QED BY <2>1 DEF Takeable, ReplyFrames, Reply
<1>5. /\ evs \in Seq(EventFrames \cup {Final, None}) /\ Ordered(evs)
      /\ Sent(evs) \subseteq Sent(fs)
  <2>1. CASE Replies(fs) = {}
    BY <1>1, <1>3, <1>4, <2>1
  <2>2. CASE Replies(fs) # {}
    <3>1. PICK i \in Replies(fs) : i = CHOOSE j \in Replies(fs) : TRUE
      BY <2>2, Zenon
    <3>2. i \in 1..Len(fs) /\ evs = RemoveAt(fs, i)
      BY <1>1, <2>2, <3>1 DEF Replies
    <3>3. fs \in Seq(Takeable) /\ Ordered(fs)
      BY <1>1, <1>3, Zenon
    <3>4. \A j \in 1..Len(fs) : j # i => fs[j] \in EventFrames \cup {Final, None}
      BY <1>1, <1>4, <3>1, Zenon
    <3>5. /\ RemoveAt(fs, i) \in Seq(EventFrames \cup {Final, None})
          /\ Ordered(RemoveAt(fs, i)) /\ Sent(RemoveAt(fs, i)) \subseteq Sent(fs)
      BY <3>2, <3>3, <3>4, RemoveAtFacts, Zenon
    <3> QED BY <3>2, <3>5, Zenon
  <2> QED BY <2>1, <2>2, Zenon
<1>6. Sent(<<CarryAfter(ms)>>) \subseteq Coming(ms) /\ Precede(Sent(evs), Sent(<<CarryAfter(ms)>>))
  <2>1. CASE ms[1][1] = "head"
    <3>1. fs = <<>>
      BY <2>1, Zenon DEF Frames
    <3>2. Replies(fs) = {} /\ Len(fs) = 0
      BY <3>1 DEF Replies
    <3>3. evs = fs
      BY <3>2, Zenon
    <3>4. Sent(evs) = {}
      BY <3>2, <3>3 DEF Sent
    <3>5. ms[1] \in Heads
      BY <1>2, <2>1 DEF Frame, ReplyFrames, Reply, EventFrames, Event, Others, Final, Bad, Oversized, Drop
    <3>6. PICK n \in Nat : ms[1] = <<"head", Event(n)>>
      BY <3>5, Zenon DEF Heads
    <3>7. CarryAfter(ms) = Event(n)
      BY <2>1, <3>6 DEF CarryAfter
    <3>8. \A m \in Nat : Event(n) = Event(m) => m = n
      BY Zenon DEF Event
    <3>9. Sent(<<CarryAfter(ms)>>) \subseteq {n}
      BY <3>7, <3>8, SentOne, Zenon
    <3>10. n \in Coming(ms)
      BY <1>2, <3>6, Zenon DEF Coming
    <3> QED BY <3>4, <3>9, <3>10, Zenon DEF Precede
  <2>2. CASE ms[1][1] # "head"
    <3>1. CarryAfter(ms) = None
      BY <2>2, Zenon DEF CarryAfter
    <3>2. \A n \in Nat : None # Event(n)
      BY Zenon DEF None, Event
    <3>3. Sent(<<CarryAfter(ms)>>) = {}
      BY <3>1, <3>2, SentOne, Zenon
    <3> QED BY <3>3, Zenon DEF Precede
  <2> QED BY <2>1, <2>2, Zenon
<1> QED BY <1>3, <1>5, <1>6, Zenon

\* An entry of the log that is no event.
LEMMA Marked ==
  ASSUME log \in Seq(LogEntries), Ordered(log), NEW x \in LogEntries, x \notin EventFrames
  PROVE  Ordered(Append(log, x)) /\ Sent(Append(log, x)) = Sent(log)
<1>1. Sent(<<x>>) = {}
  BY SentOne, Zenon DEF EventFrames
<1>2. Precede(Sent(log), Sent(<<x>>))
  BY <1>1, Zenon DEF Precede
<1>3. Ordered(Append(log, x)) /\ Sent(Append(log, x)) = Sent(log) \cup Sent(<<x>>)
  BY <1>2, SentAppend
<1>4. Sent(log) \cup Sent(<<x>>) = Sent(log)
  BY <1>1, Zenon
<1> QED BY <1>3, <1>4, Zenon

\* One event goes from a queue to the log, or none does and the log ends in an error.
Passed(es) ==
  \/ es # <<>> /\ log' \in {log, Append(log, Head(es))} /\ queue' = Tail(es)
  \/ log' \in {log, Append(log, Bad)} /\ queue' = es

\* What is passed on keeps its order.
LEMMA PassedOrder ==
  ASSUME NEW es \in Seq(Queueable), log \in Seq(LogEntries), Ordered(log), Ordered(es),
         Precede(Sent(log), Sent(es)), Passed(es)
  PROVE  /\ Ordered(log') /\ Ordered(queue') /\ Precede(Sent(log'), Sent(queue'))
         /\ Sent(log') \subseteq Sent(log) \cup Sent(es) /\ Sent(queue') \subseteq Sent(es)
<1>1. CASE es # <<>> /\ log' \in {log, Append(log, Head(es))} /\ queue' = Tail(es)
  <2>1. /\ Ordered(Tail(es)) /\ Head(es) \in Queueable
        /\ Sent(<<Head(es)>>) \subseteq Sent(es) /\ Sent(Tail(es)) \subseteq Sent(es)
        /\ Precede(Sent(<<Head(es)>>), Sent(Tail(es)))
    BY <1>1, SentTail, Zenon
  <2>2. Precede(Sent(log), Sent(<<Head(es)>>)) /\ Precede(Sent(log), Sent(Tail(es)))
    BY <2>1, Zenon DEF Precede
  <2>3. Head(es) \in LogEntries
    BY <2>1, Zenon DEF LogEntries
  <2>4. /\ Ordered(Append(log, Head(es)))
        /\ Sent(Append(log, Head(es))) = Sent(log) \cup Sent(<<Head(es)>>)
    BY <2>2, <2>3, SentAppend
  <2>5. CASE log' = log
    BY <1>1, <2>1, <2>2, <2>5, Zenon
  <2>6. CASE log' = Append(log, Head(es))
    <3>1. /\ Ordered(log') /\ Ordered(queue') /\ Sent(queue') \subseteq Sent(es)
          /\ Sent(log') = Sent(log) \cup Sent(<<Head(es)>>) /\ Sent(queue') = Sent(Tail(es))
      BY <1>1, <2>1, <2>4, <2>6, Zenon
    <3>2. Precede(Sent(log'), Sent(queue'))
      BY <2>1, <2>2, <3>1, Zenon DEF Precede
    <3> QED BY <2>1, <3>1, <3>2, Zenon
  <2> QED BY <1>1, <2>5, <2>6, Zenon
<1>2. CASE log' \in {log, Append(log, Bad)} /\ queue' = es
  <2>1. Bad \in LogEntries /\ Bad \notin EventFrames
    BY Zenon DEF LogEntries, EventFrames, Bad, Event
  <2>2. Ordered(log') /\ Sent(log') = Sent(log)
    <3>1. CASE log' = log
      BY <3>1, Zenon
    <3>2. CASE log' = Append(log, Bad)
      BY <2>1, <3>2, Marked, Zenon
    <3> QED BY <1>2, <3>1, <3>2, Zenon
  <2> QED BY <1>2, <2>2, Zenon
<1> QED BY <1>1, <1>2, Zenon DEF Passed

\* recv_event of a read: its events go behind what was dispatched.
LEMMA ReadOrder ==
  ASSUME EventOrder, Reads, inbound # <<>>, NEW es,
         Sent(es) \subseteq Sent(<<carry>>) \cup Coming(inbound[1]),
         Sent(<<carry'>>) \subseteq Coming(inbound[1]), Precede(Sent(es), Sent(<<carry'>>)),
         Ordered(log'), Ordered(queue'), Precede(Sent(log'), Sent(queue')),
         Sent(log') \subseteq Sent(log) \cup Sent(es), Sent(queue') \subseteq Sent(es),
         inbound' = Tail(inbound), reads' = reads
  PROVE  EventOrder'
<1>1. PICK k \in Nat :
        /\ Len(inbound) = k + 1 /\ Len(inbound') = k
        /\ \A i \in 1..k : inbound'[i] = inbound[i + 1]
  <2>1. /\ Len(inbound') = Len(inbound) - 1 /\ Len(inbound) \in Nat
        /\ \A i \in 1..Len(inbound') : inbound'[i] = inbound[i + 1]
    BY HeadTailProperties DEF Reads
  <2>2. Len(inbound') \in Nat /\ Len(inbound) = Len(inbound') + 1
    BY <2>1 DEF Reads
  <2> QED BY <2>1, <2>2, Zenon
<1>2. /\ 1 \in 1..k + 1 /\ \A i \in 1..k : i + 1 \in 1..k + 1 /\ 1 < i + 1
      /\ \A i, j \in 1..k : i < j => i + 1 < j + 1
  OBVIOUS
<1>3. /\ Precede(Sent(log), Sent(<<carry>>)) /\ Precede(Sent(log), Coming(inbound[1]))
      /\ \A i \in 1..k : Precede(Sent(log) \cup Sent(<<carry>>) \cup Coming(inbound[1]), Coming(inbound[i + 1]))
      /\ Precede(Sent(log) \cup Sent(<<carry>>) \cup Coming(inbound[1]), {2 * reads})
      /\ Precede(Sent(<<carry>>), Coming(inbound[1]))
  BY <1>1, <1>2 DEF EventOrder, Precede
<1>5. Precede(Sent(log') \cup Sent(queue'), Sent(<<carry'>>))
  <2>1. Precede(Sent(log), Sent(<<carry'>>))
    BY <1>3, Zenon DEF Precede
  <2> QED BY <2>1, Zenon DEF Precede
<1>6. Sent(log') \cup Sent(queue') \cup Sent(<<carry'>>)
        \subseteq Sent(log) \cup Sent(<<carry>>) \cup Coming(inbound[1])
  BY Zenon
<1>7. \A i \in 1..k : Precede(Sent(log') \cup Sent(queue') \cup Sent(<<carry'>>), Coming(inbound'[i]))
  <2> SUFFICES ASSUME NEW i \in 1..k
               PROVE  Precede(Sent(log') \cup Sent(queue') \cup Sent(<<carry'>>), Coming(inbound[i + 1]))
    BY <1>1, Zenon
  <2>1. Precede(Sent(log) \cup Sent(<<carry>>) \cup Coming(inbound[1]), Coming(inbound[i + 1]))
    BY <1>3, Zenon
  <2> QED BY <1>6, <2>1, Zenon DEF Precede
<1>8. Precede(Sent(log') \cup Sent(queue') \cup Sent(<<carry'>>), {2 * reads})
  BY <1>3, <1>6, Zenon DEF Precede
<1>9. ASSUME NEW i \in 1..k PROVE Ordered(inbound'[i]) /\ Precede(Coming(inbound'[i]), {2 * reads})
  <2>1. i + 1 \in 1..Len(inbound) /\ inbound'[i] = inbound[i + 1]
    BY <1>1, <1>2, Zenon
  <2> QED BY <2>1, Zenon DEF EventOrder
<1>10. ASSUME NEW i \in 1..k, NEW j \in 1..k, i < j
       PROVE  Precede(Coming(inbound'[i]), Coming(inbound'[j]))
  <2>1. /\ i + 1 \in 1..Len(inbound) /\ inbound'[i] = inbound[i + 1]
        /\ j + 1 \in 1..Len(inbound) /\ inbound'[j] = inbound[j + 1] /\ i + 1 < j + 1
    BY <1>1, <1>2, <1>10, Zenon
  <2> QED BY <2>1, Zenon DEF EventOrder
<1>11. reads \in Nat
  BY Zenon DEF EventOrder
<1> QED BY <1>1, <1>5, <1>7, <1>8, <1>9, <1>10, <1>11, Zenon DEF EventOrder

\* Between log and queue an event only moves forward.
LEMMA KeptOrder ==
  ASSUME EventOrder, Ordered(log'), Ordered(queue'), Precede(Sent(log'), Sent(queue')),
         Sent(log') \subseteq Sent(log) \cup Sent(queue), Sent(queue') \subseteq Sent(queue),
         UNCHANGED <<carry, inbound, reads>>
  PROVE  EventOrder'
<1>1. carry' = carry /\ inbound' = inbound /\ reads' = reads
  BY Zenon
<1>2. Sent(log') \cup Sent(queue') \subseteq Sent(log) \cup Sent(queue)
  BY Zenon
<1>3. Precede(Sent(log') \cup Sent(queue'), Sent(<<carry>>))
  BY <1>2, Zenon DEF EventOrder, Precede
<1>4. Precede(Sent(log') \cup Sent(queue') \cup Sent(<<carry>>), {2 * reads})
  BY <1>2, Zenon DEF EventOrder, Precede
<1>5. ASSUME NEW k \in 1..Len(inbound)
      PROVE  Precede(Sent(log') \cup Sent(queue') \cup Sent(<<carry>>), Coming(inbound[k]))
  <2>1. Precede(Sent(log) \cup Sent(queue) \cup Sent(<<carry>>), Coming(inbound[k]))
    BY Zenon DEF EventOrder
  <2> QED BY <1>2, <2>1, Zenon DEF Precede
<1>6. /\ reads \in Nat /\ \A k \in 1..Len(inbound) : Ordered(inbound[k])
      /\ \A k, m \in 1..Len(inbound) : k < m => Precede(Coming(inbound[k]), Coming(inbound[m]))
      /\ \A k \in 1..Len(inbound) : Precede(Coming(inbound[k]), {2 * reads})
  BY Zenon DEF EventOrder
<1> QED BY <1>1, <1>3, <1>4, <1>5, <1>6, Zenon DEF EventOrder

\* Doubling keeps order: two event numbers belong to each read.
LEMMA Doubles == \A a, b \in Nat : 2 * a \in Nat /\ (a <= b => 2 * a <= 2 * b)
OBVIOUS

\* The device numbers its events upwards.
LEMMA AddedOrder ==
  ASSUME EventOrder, Reads, NEW ms \in Seq(Frame), Ordered(ms), inbound' = Append(inbound, ms),
         reads' \in {reads, reads + 1}, UNCHANGED <<log, queue, carry>>,
         \A n \in Coming(ms) : 2 * reads <= n /\ n < 2 * reads'
  PROVE  EventOrder'
<1>1. PICK k \in Nat : /\ Len(inbound) = k /\ Len(inbound') = k + 1 /\ inbound'[k + 1] = ms
                       /\ \A i \in 1..k : inbound'[i] = inbound[i]
  <2>1. Len(inbound) \in Nat /\ Len(inbound') = Len(inbound) + 1 /\ inbound'[Len(inbound) + 1] = ms
        /\ \A i \in 1..Len(inbound) : inbound'[i] = inbound[i]
    BY AppendProperties DEF Reads
  <2> QED BY <2>1, Zenon
<1>2. \A i \in 1..k + 1 : i \in 1..k \/ i = k + 1
  OBVIOUS
<1>3. \A i, j \in 1..k + 1 : i < j => i \in 1..k
  OBVIOUS
<1>4. reads \in Nat /\ reads' \in Nat /\ 2 * reads <= 2 * reads'
  <2>1. PICK r \in Nat : r = reads
    BY Zenon DEF EventOrder
  <2>2. PICK q \in Nat : q = reads' /\ r <= q
    <3>1. CASE reads' = reads
      BY <2>1, <3>1
    <3>2. CASE reads' = reads + 1
      BY <2>1, <3>2
    <3> QED BY <3>1, <3>2, Zenon
  <2>3. 2 * r <= 2 * q
    BY <2>2, Doubles, Zenon
  <2> QED BY <2>1, <2>2, <2>3, Zenon
<1>5. ASSUME NEW A \in SUBSET Nat, Precede(A, {2 * reads})
      PROVE  Precede(A, {2 * reads'}) /\ Precede(A, Coming(ms))
  <2>1. Coming(ms) \subseteq Nat
    BY Zenon DEF Coming
  <2>2. PICK x \in Nat, y \in Nat : x = 2 * reads /\ y = 2 * reads' /\ x <= y
    BY <1>4, Doubles, Zenon
  <2>3. \A a \in A : a \in Nat /\ a < x
    BY <1>5, <2>2, Zenon DEF Precede
  <2>4. \A n \in Coming(ms) : n \in Nat /\ x <= n
    BY <2>1, <2>2, Zenon
  <2> QED BY <2>2, <2>3, <2>4 DEF Precede
<1>6. PICK S \in SUBSET Nat : S = Sent(log) \cup Sent(queue) \cup Sent(<<carry>>)
  <2>1. Sent(log) \subseteq Nat /\ Sent(queue) \subseteq Nat /\ Sent(<<carry>>) \subseteq Nat
    BY Zenon DEF Sent
  <2> QED BY <2>1, Zenon
<1>7. Precede(S, {2 * reads'}) /\ Precede(S, Coming(ms))
  <2>1. Precede(S, {2 * reads})
    BY <1>6, Zenon DEF EventOrder
  <2> QED BY <1>5, <2>1, Zenon
<1>8. ASSUME NEW i \in 1..k
      PROVE  Precede(Coming(inbound[i]), {2 * reads'}) /\ Precede(Coming(inbound[i]), Coming(ms))
  <2>1. Coming(inbound[i]) \in SUBSET Nat
    BY Zenon DEF Coming
  <2>2. Precede(Coming(inbound[i]), {2 * reads})
    BY <1>1, Zenon DEF EventOrder
  <2> QED BY <1>5, <2>1, <2>2, Zenon
<1>9. Precede(Coming(ms), {2 * reads'})
  BY Zenon DEF Precede
<1>10. ASSUME NEW i \in 1..k + 1
       PROVE  /\ Ordered(inbound'[i]) /\ Precede(S, Coming(inbound'[i]))
              /\ Precede(Coming(inbound'[i]), {2 * reads'})
  <2>1. CASE i \in 1..k
    <3>1. inbound'[i] = inbound[i] /\ i \in 1..Len(inbound)
      BY <1>1, <2>1, Zenon
    <3>2. Ordered(inbound[i]) /\ Precede(S, Coming(inbound[i]))
      BY <1>6, <3>1, Zenon DEF EventOrder
    <3> QED BY <1>8, <2>1, <3>1, <3>2, Zenon
  <2>2. CASE i = k + 1
    <3>1. inbound'[i] = ms
      BY <1>1, <2>2, Zenon
    <3> QED BY <1>7, <1>9, <3>1, Zenon
  <2> QED BY <1>2, <2>1, <2>2, Zenon
<1>11. ASSUME NEW i \in 1..k + 1, NEW j \in 1..k + 1, i < j
       PROVE  Precede(Coming(inbound'[i]), Coming(inbound'[j]))
  <2>1. i \in 1..k /\ inbound'[i] = inbound[i]
    BY <1>1, <1>3, <1>11, Zenon
  <2>2. CASE j \in 1..k
    <3>1. inbound'[j] = inbound[j] /\ i \in 1..Len(inbound) /\ j \in 1..Len(inbound)
      BY <1>1, <2>1, <2>2, Zenon
    <3> QED BY <1>11, <2>1, <3>1, Zenon DEF EventOrder
  <2>3. CASE j = k + 1
    <3>1. inbound'[j] = ms
      BY <1>1, <2>3, Zenon
    <3> QED BY <1>8, <2>1, <3>1, Zenon
  <2> QED BY <1>2, <2>2, <2>3, Zenon
<1>12. log' = log /\ queue' = queue /\ carry' = carry
  BY Zenon
<1>13. /\ Ordered(log) /\ Ordered(queue) /\ Precede(Sent(log), Sent(queue))
       /\ Precede(Sent(log) \cup Sent(queue), Sent(<<carry>>))
  BY Zenon DEF EventOrder
<1> QED BY <1>1, <1>4, <1>6, <1>7, <1>10, <1>11, <1>12, <1>13, Zenon DEF EventOrder

\* What the device prepares comes behind all it has prepared.
LEMMA DeviceOrder ==
  ASSUME EventOrder, Parties, Reads, DeviceSends \/ DeviceSendsHalf \/ DeviceSendsRest \/ DeviceDrops
  PROVE  EventOrder'
<1>1. PICK r \in Nat : r = reads
  BY Zenon DEF EventOrder
<1>2. 2 * r \in Nat /\ 2 * r + 1 \in Nat /\ 2 * r + 1 < 2 * (r + 1) /\ 2 * r < 2 * (r + 1)
      /\ 2 * r <= 2 * r /\ 2 * r <= 2 * r + 1 /\ 2 * r < 2 * r + 1
  OBVIOUS
<1>3. log' = log /\ queue' = queue /\ carry' = carry
  BY DEF DeviceSends, DeviceSendsHalf, DeviceSendsRest, DeviceDrops, hostvars
<1>4. \A m, n \in Nat : Event(m) = Event(n) => m = n
  BY Zenon DEF Event
<1>6. CASE DeviceSends
  <2>1. PICK ms \in {<<a>> : a \in Messages(2 * r)}
                    \cup {<<a, b>> : a \in Messages(2 * r) \ {Oversized}, b \in Messages(2 * r + 1)} :
          inbound' = Append(inbound, ms)
    BY <1>1, <1>6 DEF DeviceSends
  <2>2. reads' = r + 1
    BY <1>1, <1>6 DEF DeviceSends
  <2>3. ASSUME NEW n \in Nat, NEW x \in Messages(n)
        PROVE  /\ x \in Frame /\ \A m \in Nat : x = Event(m) => m = n
               /\ \A m \in Nat : x # <<"head", Event(m)>>
    <3>1. x \in Frame \ (Heads \cup {Drop, <<"rest">>}) /\ \A m \in Nat : x = Event(m) => m = n
      BY MessageFacts
    <3> QED BY <3>1 DEF Heads
  <2>4. CASE ms \in {<<a>> : a \in Messages(2 * r)}
    <3>1. PICK a \in Messages(2 * r) : ms = <<a>>
      BY <2>4
    <3>2. /\ a \in Frame /\ \A m \in Nat : a = Event(m) => m = 2 * r
          /\ \A m \in Nat : a # <<"head", Event(m)>>
      BY <1>2, <2>3
    <3>3. ms \in Seq(Frame) /\ Len(ms) = 1 /\ \A i \in 1..Len(ms) : ms[i] = a
      BY <3>1, <3>2
    <3>4. Coming(ms) \subseteq {2 * r}
      BY <3>2, <3>3 DEF Coming
    <3>5. Ordered(ms)
      BY <3>1, SentOne
    <3>6. \A n \in Coming(ms) : 2 * reads <= n /\ n < 2 * reads'
      BY <1>1, <1>2, <2>2, <3>4
    <3> QED BY <1>1, <1>3, <2>1, <2>2, <3>3, <3>5, <3>6, AddedOrder
  <2>5. CASE ms \in {<<a, b>> : a \in Messages(2 * r) \ {Oversized}, b \in Messages(2 * r + 1)}
    <3>1. PICK a \in Messages(2 * r), b \in Messages(2 * r + 1) : ms = <<a, b>>
      BY <2>5
    <3>2. /\ a \in Frame /\ \A m \in Nat : a = Event(m) => m = 2 * r
          /\ \A m \in Nat : a # <<"head", Event(m)>>
          /\ b \in Frame /\ \A m \in Nat : b = Event(m) => m = 2 * r + 1
          /\ \A m \in Nat : b # <<"head", Event(m)>>
      BY <1>2, <2>3
    <3>3. ms \in Seq(Frame) /\ Len(ms) = 2 /\ ms[1] = a /\ ms[2] = b
      BY <3>1, <3>2
    <3>4. \A i \in 1..Len(ms) : i = 1 \/ i = 2
      BY <3>3
    <3>5. \A n \in Coming(ms) : n = 2 * r \/ n = 2 * r + 1
      BY <3>2, <3>3, <3>4 DEF Coming
    <3>6. Ordered(ms)
      <4>1. \A i, j \in 1..Len(ms) : i < j => i = 1 /\ j = 2
        BY <3>3
      <4> QED BY <1>2, <3>2, <3>3, <4>1 DEF Ordered
    <3>7. \A n \in Coming(ms) : 2 * reads <= n /\ n < 2 * reads'
      BY <1>1, <1>2, <2>2, <3>5
    <3> QED BY <1>1, <1>3, <2>1, <2>2, <3>3, <3>6, <3>7, AddedOrder
  <2> QED BY <2>1, <2>4, <2>5
<1>7. CASE DeviceSendsHalf
  <2>1. PICK x : x = <<"head", Event(2 * r)>>
    BY Zenon
  <2>2. inbound' = Append(inbound, <<x>>) /\ reads' = r + 1
    BY <1>1, <1>7, <2>1, Zenon DEF DeviceSendsHalf
  <2>3. x \in Frame
    BY <1>2, <2>1, Zenon DEF Frame, Heads
  <2>4. \A m \in Nat : x # Event(m) /\ (x = <<"head", Event(m)>> => m = 2 * r)
    BY <2>1, Zenon DEF Event
  <2>5. <<x>> \in Seq(Frame) /\ \A i \in 1..Len(<<x>>) : <<x>>[i] = x
    BY <2>3
  <2>6. \A n \in Coming(<<x>>) : n = 2 * r
    BY <2>4, <2>5, Zenon DEF Coming
  <2>7. \A n \in Coming(<<x>>) : 2 * reads <= n /\ n < 2 * reads'
    BY <1>1, <1>2, <2>2, <2>6, Zenon
  <2>8. Ordered(<<x>>)
    BY SentOne, Zenon
  <2>9. reads' \in {reads, reads + 1} /\ inbound' = Append(inbound, <<x>>) /\ <<x>> \in Seq(Frame)
    BY <1>1, <2>2, <2>5, Zenon
  <2>10. UNCHANGED <<log, queue, carry>>
    BY <1>3, Zenon
  <2> QED BY <2>7, <2>8, <2>9, <2>10, AddedOrder, Zenon
<1>8. CASE DeviceSendsRest \/ DeviceDrops
  <2>1. PICK x \in {Drop, <<"rest">>} : inbound' = Append(inbound, <<x>>)
    BY <1>8, Zenon DEF DeviceSendsRest, DeviceDrops
  <2>2. reads' \in {reads, reads + 1}
    BY <1>8, Zenon DEF DeviceSendsRest, DeviceDrops
  <2>3. x \in Frame /\ \A m \in Nat : x # Event(m) /\ x # <<"head", Event(m)>>
    BY DEF Frame, Others, Event, Drop
  <2>4. <<x>> \in Seq(Frame) /\ \A i \in 1..Len(<<x>>) : <<x>>[i] = x
    BY <2>3
  <2>5. Coming(<<x>>) = {}
    BY <2>3, <2>4, Zenon DEF Coming
  <2>6. Ordered(<<x>>)
    BY SentOne, Zenon
  <2>7. \A n \in Coming(<<x>>) : 2 * reads <= n /\ n < 2 * reads'
    BY <2>5, Zenon
  <2>8. UNCHANGED <<log, queue, carry>> /\ <<x>> \in Seq(Frame)
    BY <1>3, <2>4, Zenon
  <2> QED BY <2>1, <2>2, <2>6, <2>7, <2>8, AddedOrder, Zenon
<1> QED BY <1>6, <1>7, <1>8, Zenon

-----------------------------------------------------------------------------
(* Proofs about a lost link                                                *)

\* Steps that neither receive nor dispatch.
LEMMA LinkQuiet ==
  ASSUME LinkOrder, UNCHANGED <<links, queue, log, final>>, host' = "closing" => host = "closing"
  PROVE  LinkOrder'
<1>1. links' = links /\ queue' = queue /\ log' = log /\ final' = final
  BY Zenon
<1>2. host' = "closing" => final
  BY Zenon DEF LinkOrder
<1>3. /\ links \in Nat /\ queue \in Seq(Queueable) /\ log \in Seq(LogEntries)
      /\ \A i \in 1..Len(log) : log[i] \in Interruptions /\ i < Len(log)
                                => log[i + 1] = <<"recovered", log[i][2]>>
  BY Zenon DEF LinkOrder
<1>4. final \in BOOLEAN
  BY Zenon DEF LinkOrder
<1>5. Len(log) > 0 /\ log[Len(log)] \in Interruptions =>
        ~final /\ queue = <<<<"recovered", log[Len(log)][2]>>>>
  BY Zenon DEF LinkOrder
<1>6. final' <=> final
  BY <1>1
<1>7. final' \in BOOLEAN
  BY <1>1, <1>4, Zenon
<1>8. Len(log') > 0 /\ log'[Len(log')] \in Interruptions =>
        ~final' /\ queue' = <<<<"recovered", log'[Len(log')][2]>>>>
  BY <1>1, <1>5, <1>6, Zenon
<1>9. /\ links' \in Nat /\ queue' \in Seq(Queueable) /\ log' \in Seq(LogEntries)
      /\ \A i \in 1..Len(log') : log'[i] \in Interruptions /\ i < Len(log')
                                => log'[i + 1] = <<"recovered", log'[i][2]>>
  BY <1>1, <1>3, Zenon
<1> QED BY <1>2, <1>6, <1>7, <1>8, <1>9, Zenon DEF LinkOrder

\* The log gets one more entry: after an interruption, its recovery.
LEMMA LogGrows ==
  ASSUME LinkOrder, NEW x \in LogEntries, log' = Append(log, x),
         Len(log) > 0 /\ log[Len(log)] \in Interruptions => x = <<"recovered", log[Len(log)][2]>>
  PROVE  /\ log' \in Seq(LogEntries) /\ Len(log') > 0 /\ log'[Len(log')] = x
         /\ \A i \in 1..Len(log') : log'[i] \in Interruptions /\ i < Len(log')
                                    => log'[i + 1] = <<"recovered", log'[i][2]>>
<1>1. PICK k \in Nat : /\ k = Len(log) /\ Len(log') = k + 1 /\ log'[k + 1] = x
                       /\ \A i \in 1..k : log'[i] = log[i]
  <2>1. Len(log) \in Nat /\ Len(log') = Len(log) + 1 /\ log'[Len(log) + 1] = x
        /\ \A i \in 1..Len(log) : log'[i] = log[i]
    BY AppendProperties DEF LinkOrder
  <2> QED BY <2>1, Zenon
<1>2. log' \in Seq(LogEntries)
  BY AppendProperties, Zenon DEF LinkOrder
<1>3. k + 1 > 0
  OBVIOUS
<1>4. ASSUME NEW i \in 1..k + 1, log'[i] \in Interruptions, i < k + 1
      PROVE  log'[i + 1] = <<"recovered", log'[i][2]>>
  <2>1. i \in 1..k /\ log'[i] = log[i]
    <3>1. i \in 1..k
      BY <1>4
    <3> QED BY <1>1, <3>1, Zenon
  <2>2. CASE i = k
    <3>1. k > 0
      BY <2>1, <2>2
    <3>2. log[k] \in Interruptions
      BY <1>4, <2>1, <2>2, Zenon
    <3> QED BY <1>1, <2>1, <2>2, <3>1, <3>2, Zenon
  <2>3. CASE i # k
    <3>1. i < k /\ i + 1 \in 1..k
      BY <2>1, <2>3
    <3>2. log[i + 1] = <<"recovered", log[i][2]>>
      BY <1>1, <1>4, <2>1, <3>1, Zenon DEF LinkOrder
    <3>3. log'[i + 1] = log[i + 1]
      BY <1>1, <3>1, Zenon
    <3> QED BY <2>1, <3>2, <3>3, Zenon
  <2> QED BY <2>2, <2>3, Zenon
<1> QED BY <1>1, <1>2, <1>3, <1>4, Zenon

\* recv_event from pending_events: a recovery is taken right after its interruption.
LEMMA QueuedLink ==
  ASSUME LinkOrder, RecvQueued
  PROVE  LinkOrder'
<1>1. /\ queue # <<>> /\ queue' = Tail(queue) /\ Deliver(Head(queue)) /\ links' = links
      /\ queue \in Seq(Queueable) /\ log \in Seq(LogEntries) /\ links \in Nat
  BY Zenon DEF RecvQueued, wire, LinkOrder
<1>2. Head(queue) \in Queueable /\ queue' \in Seq(Queueable)
  BY <1>1, HeadTailProperties, Zenon
<1>3. Final \notin Interruptions /\ \A n : <<"recovered", n>> # Final
  BY Zenon DEF Final, Interruptions
<1>4. \A x \in Queueable : x \notin Interruptions
  BY DEF Queueable, Interruptions, EventFrames, Event, Recoveries, Final, None
<1>5. Len(log) > 0 /\ log[Len(log)] \in Interruptions
        => queue' = <<>> /\ Head(queue) = <<"recovered", log[Len(log)][2]>>
  BY <1>1 DEF LinkOrder
<1>6. CASE Head(queue) = Final
  <2>1. ~(Len(log) > 0 /\ log[Len(log)] \in Interruptions)
    BY <1>3, <1>5, <1>6, Zenon
  <2>2. Deliver(Final)
    BY <1>1, <1>6, Zenon
  <2>3. log' = log /\ final' = TRUE
    BY <2>2, Zenon DEF Deliver
  <2> QED BY <1>1, <1>2, <2>1, <2>3, Zenon DEF LinkOrder
<1>7. CASE Head(queue) # Final
  <2>1. host' = "dispatch" /\ log' = Append(log, Head(queue)) /\ final' = final
    BY <1>1, <1>7, Zenon DEF Deliver
  <2>2. Head(queue) \in LogEntries
    BY <1>2, Zenon DEF LogEntries
  <2>3. /\ log' \in Seq(LogEntries) /\ Len(log') > 0 /\ log'[Len(log')] = Head(queue)
        /\ \A i \in 1..Len(log') : log'[i] \in Interruptions /\ i < Len(log')
                                   => log'[i + 1] = <<"recovered", log'[i][2]>>
    BY <1>5, <2>1, <2>2, LogGrows, Zenon
  <2>4. log'[Len(log')] \notin Interruptions
    BY <1>2, <1>4, <2>3, Zenon
  <2>5. final \in BOOLEAN /\ host' # "closing"
    BY <2>1, Zenon DEF LinkOrder
  <2> QED BY <1>1, <1>2, <2>1, <2>3, <2>4, <2>5, Zenon DEF LinkOrder
<1> QED BY <1>6, <1>7, Zenon

\* recv_event with bytes: the queue was empty, so no interruption waits for its recovery.
LEMMA BytesLink ==
  ASSUME LinkOrder, RecvBytes, NEW es \in Seq(EventFrames \cup {Final, None}),
         NEW fs, fs = Frames(Head(inbound)),
         es = IF Replies(fs) = {} THEN fs ELSE RemoveAt(fs, CHOOSE i \in Replies(fs) : TRUE)
  PROVE  LinkOrder' /\ Passed(es)
<1>1. /\ queue = <<>> /\ links' = links /\ host = "poll" /\ log \in Seq(LogEntries) /\ links \in Nat
      /\ es \in Seq(Queueable)
  BY DEF RecvBytes, LinkOrder, Queueable
<1>2. ~(Len(log) > 0 /\ log[Len(log)] \in Interruptions)
  <2>1. \A x : <<x>> # <<>>
    BY Zenon
  <2> QED BY <1>1, <2>1, Zenon DEF LinkOrder
<1>3. IF FeedFails(Head(inbound))
      THEN queue' = es /\ host' = "dispatch" /\ log' = Append(log, Bad) /\ final' = final
      ELSE IF es = <<>> THEN queue' = queue /\ host' = host /\ log' = log /\ final' = final
      ELSE queue' = Tail(es) /\ Deliver(Head(es))
  BY Zenon DEF RecvBytes
<1>4. /\ final \in BOOLEAN
      /\ \A i \in 1..Len(log) : log[i] \in Interruptions /\ i < Len(log)
                                => log[i + 1] = <<"recovered", log[i][2]>>
  BY Zenon DEF LinkOrder
<1>5. ASSUME NEW x \in LogEntries \ Interruptions, log' = Append(log, x), host' = "dispatch",
             final' = final, queue' \in Seq(Queueable)
      PROVE  LinkOrder'
  <2>1. x \in LogEntries /\ x \notin Interruptions
    BY Zenon
  <2>2. /\ log' \in Seq(LogEntries) /\ Len(log') > 0 /\ log'[Len(log')] = x
        /\ \A i \in 1..Len(log') : log'[i] \in Interruptions /\ i < Len(log')
                                   => log'[i + 1] = <<"recovered", log'[i][2]>>
    BY <1>2, <1>5, <2>1, LogGrows, Zenon
  <2>3. log'[Len(log')] \notin Interruptions /\ host' # "closing"
    BY <1>5, <2>1, <2>2, Zenon
  <2> QED BY <1>1, <1>4, <1>5, <2>2, <2>3, Zenon DEF LinkOrder
<1>6. CASE FeedFails(Head(inbound))
  <2>1. Bad \in LogEntries \ Interruptions
    BY Zenon DEF LogEntries, Interruptions, Bad
  <2> QED BY <1>1, <1>3, <1>5, <1>6, <2>1, Zenon DEF Passed
<1>7. CASE ~FeedFails(Head(inbound)) /\ es = <<>>
  <2>1. UNCHANGED <<links, queue, log, final>> /\ host' = host
    BY <1>1, <1>3, <1>7, Zenon
  <2>2. LinkOrder'
    BY <2>1, LinkQuiet, Zenon
  <2> QED BY <1>1, <1>7, <2>1, <2>2, Zenon DEF Passed
<1>8. CASE ~FeedFails(Head(inbound)) /\ es # <<>>
  <2>1. queue' = Tail(es) /\ Deliver(Head(es))
    BY <1>3, <1>8, Zenon
  <2>2. Head(es) \in EventFrames \cup {Final, None} /\ queue' \in Seq(Queueable)
    BY <1>1, <1>8, <2>1, HeadTailProperties, Zenon
  <2>3. CASE Head(es) = Final
    <3>1. Deliver(Final)
      BY <2>1, <2>3, Zenon
    <3>2. final' = TRUE /\ log' = log
      BY <3>1, Zenon DEF Deliver
    <3>3. LinkOrder'
      BY <1>1, <1>2, <1>4, <2>2, <3>2, Zenon DEF LinkOrder
    <3> QED BY <1>8, <2>1, <3>2, <3>3, Zenon DEF Passed
  <2>4. CASE Head(es) # Final
    <3>1. host' = "dispatch" /\ log' = Append(log, Head(es)) /\ final' = final
      BY <2>1, <2>4, Zenon DEF Deliver
    <3>2. Head(es) \in LogEntries \ Interruptions
      BY <2>2 DEF LogEntries, Queueable, Interruptions, EventFrames, Event, Final, None
    <3>3. LinkOrder'
      BY <1>5, <2>2, <3>1, <3>2, Zenon
    <3> QED BY <1>8, <2>1, <3>1, <3>3, Zenon DEF Passed
  <2> QED BY <2>3, <2>4, Zenon
<1> QED BY <1>6, <1>7, <1>8, Zenon

\* recv_event of a lost link: the interruption is dispatched, its recovery queued, and no
\* event of the device overtakes either.
LEMMA DropStep ==
  ASSUME EventOrder, LinkOrder, Reads, RecvDrop
  PROVE  EventOrder' /\ LinkOrder'
<1>1. /\ queue = <<>> /\ inbound # <<>> /\ inbound' = Tail(inbound) /\ carry' = None
      /\ links' = links + 1 /\ reads' = reads /\ queue' = <<<<"recovered", links + 1>>>>
      /\ links \in Nat /\ log \in Seq(LogEntries)
  BY Zenon DEF RecvDrop, device, LinkOrder
<1>2. PICK n \in Nat : n = links + 1
  BY <1>1
<1>3. PICK x : x = <<"interrupted", n>>
  BY Zenon
<1>4. x \in LogEntries /\ x \in Interruptions /\ x \notin EventFrames /\ x # Final /\ x[2] = n
  BY <1>3, Zenon DEF LogEntries, Interruptions, EventFrames, Event, Final
<1>5. log' = Append(log, x)
  BY <1>2, <1>3, <1>4, Zenon DEF RecvDrop, Deliver
<1>6. host' = "dispatch" /\ (final' <=> final) /\ ~final /\ final' \in BOOLEAN
  <2>1. host' = "dispatch" /\ final' = final
    BY <1>2, <1>3, <1>4, Zenon DEF RecvDrop, Deliver
  <2>2. ~final
    BY Zenon DEF RecvDrop
  <2>3. final \in BOOLEAN
    BY Zenon DEF LinkOrder
  <2> QED BY <2>1, <2>2, <2>3, Zenon
<1>7. ~(Len(log) > 0 /\ log[Len(log)] \in Interruptions)
  <2>1. \A y : <<y>> # <<>>
    BY Zenon
  <2> QED BY <1>1, <2>1, Zenon DEF LinkOrder
<1>8. LinkOrder'
  <2>1. /\ log' \in Seq(LogEntries) /\ Len(log') > 0 /\ log'[Len(log')] = x
        /\ \A i \in 1..Len(log') : log'[i] \in Interruptions /\ i < Len(log')
                                   => log'[i + 1] = <<"recovered", log'[i][2]>>
    BY <1>4, <1>5, <1>7, LogGrows, Zenon
  <2>2. queue' = <<<<"recovered", log'[Len(log')][2]>>>>
    BY <1>1, <1>2, <1>4, <2>1, Zenon
  <2>3. queue' \in Seq(Queueable)
    BY <1>1, <1>2 DEF Queueable, Recoveries
  <2>4. links' \in Nat /\ host' # "closing"
    BY <1>1, <1>6
  <2> QED BY <1>6, <2>1, <2>2, <2>3, <2>4, Zenon DEF LinkOrder
<1>9. EventOrder'
  <2>1. Ordered(log') /\ Sent(log') = Sent(log)
    BY <1>1, <1>4, <1>5, Marked, Zenon DEF EventOrder
  <2>2. \A m \in Nat : <<"recovered", n>> # Event(m) /\ None # Event(m)
    BY Zenon DEF Event, None
  <2>3. Sent(queue') = {} /\ Ordered(queue') /\ Sent(<<carry'>>) = {}
    BY <1>1, <1>2, <2>2, SentOne
  <2>4. Sent(<<>>) = {}
    BY DEF Sent
  <2>5. /\ Precede(Sent(log'), Sent(queue')) /\ Precede(Sent(<<>>), Sent(<<carry'>>))
        /\ Sent(<<>>) \subseteq Sent(<<carry>>) \cup Coming(inbound[1])
        /\ Sent(<<carry'>>) \subseteq Coming(inbound[1])
        /\ Sent(log') \subseteq Sent(log) \cup Sent(<<>>) /\ Sent(queue') \subseteq Sent(<<>>)
    BY <2>1, <2>3, <2>4, Zenon DEF Precede
  <2> QED BY <1>1, <2>1, <2>3, <2>5, ReadOrder, Zenon
<1> QED BY <1>8, <1>9, Zenon

\* close(): the final event is dispatched last; it is no event of the device's numbering.
LEMMA CloseStep ==
  ASSUME EventOrder, LinkOrder, HostClose
  PROVE  EventOrder' /\ LinkOrder'
<1>1. /\ UNCHANGED <<carry, inbound, reads>> /\ queue' = queue /\ links' = links
      /\ log \in Seq(LogEntries) /\ links \in Nat /\ queue \in Seq(Queueable)
  BY Zenon DEF HostClose, device, LinkOrder
<1>2. final /\ (final' <=> final) /\ final' \in BOOLEAN
  <2>1. final
    BY Zenon DEF HostClose, LinkOrder
  <2>2. final' = final
    BY Zenon DEF HostClose
  <2>3. final \in BOOLEAN
    BY Zenon DEF LinkOrder
  <2> QED BY <2>1, <2>2, <2>3, Zenon
<1>3. ~(Len(log) > 0 /\ log[Len(log)] \in Interruptions)
  BY <1>2, Zenon DEF LinkOrder
<1>4. Final \in LogEntries /\ Final \notin EventFrames /\ Final \notin Interruptions
  BY Zenon DEF LogEntries, Queueable, EventFrames, Event, Interruptions, Final
<1>5. /\ Ordered(log) /\ Ordered(queue) /\ Precede(Sent(log), Sent(queue))
  BY Zenon DEF EventOrder
<1>6. CASE log' = log
  <2>1. EventOrder'
    BY <1>1, <1>5, <1>6, KeptOrder, Zenon
  <2>2. LinkOrder'
    BY <1>1, <1>2, <1>3, <1>6, Zenon DEF LinkOrder
  <2> QED BY <2>1, <2>2, Zenon
<1>7. CASE log' = Append(log, Final)
  <2>1. Ordered(log') /\ Sent(log') = Sent(log)
    BY <1>1, <1>4, <1>5, <1>7, Marked, Zenon
  <2>2. EventOrder'
    BY <1>1, <1>5, <2>1, KeptOrder, Zenon
  <2>3. /\ log' \in Seq(LogEntries) /\ Len(log') > 0 /\ log'[Len(log')] = Final
        /\ \A i \in 1..Len(log') : log'[i] \in Interruptions /\ i < Len(log')
                                   => log'[i + 1] = <<"recovered", log'[i][2]>>
    BY <1>3, <1>4, <1>7, LogGrows, Zenon
  <2>4. log'[Len(log')] \notin Interruptions
    BY <1>4, <2>3, Zenon
  <2>5. LinkOrder'
    BY <1>1, <1>2, <2>3, <2>4, Zenon DEF LinkOrder
  <2> QED BY <2>2, <2>5, Zenon
<1>8. log' = log \/ log' = Append(log, Final)
  BY Zenon DEF HostClose
<1> QED BY <1>6, <1>7, <1>8, Zenon

\* recv_event from pending_events, or of a read.
LEMMA RecvStep ==
  ASSUME EventOrder, LinkOrder, Reads, RecvQueued \/ RecvBytes
  PROVE  EventOrder' /\ LinkOrder'
<1>1. /\ Ordered(log) /\ Ordered(queue) /\ Precede(Sent(log), Sent(queue))
      /\ log \in Seq(LogEntries) /\ queue \in Seq(Queueable)
  BY Zenon DEF EventOrder, LinkOrder
<1>2. CASE RecvQueued
  <2>1. Passed(queue) /\ UNCHANGED <<carry, inbound, reads>>
    BY <1>2, Zenon DEF RecvQueued, Deliver, Passed, wire, device
  <2>2. /\ Ordered(log') /\ Ordered(queue') /\ Precede(Sent(log'), Sent(queue'))
        /\ Sent(log') \subseteq Sent(log) \cup Sent(queue) /\ Sent(queue') \subseteq Sent(queue)
    BY <1>1, <2>1, PassedOrder, Zenon
  <2> QED BY <1>2, <2>1, <2>2, KeptOrder, QueuedLink, Zenon
<1>3. CASE RecvBytes
  <2>1. PICK ms : ms = Head(inbound)
    BY Zenon
  <2>2. PICK fs : fs = Frames(ms)
    BY Zenon
  <2>3. PICK es : es = IF Replies(fs) = {} THEN fs ELSE RemoveAt(fs, CHOOSE i \in Replies(fs) : TRUE)
    BY Zenon
  <2>4. /\ inbound # <<>> /\ ms # <<Drop>> /\ inbound' = Tail(inbound) /\ carry' = CarryAfter(ms)
        /\ reads' = reads
    BY <1>3, <2>1, Zenon DEF RecvBytes, device
  <2>5. ms = inbound[1] /\ ReadOk(ms) /\ Ordered(ms)
    <3>1. 1 \in 1..Len(inbound) /\ Head(inbound) = inbound[1]
      BY <2>4 DEF Reads
    <3> QED BY <2>1, <3>1, Zenon DEF Reads, EventOrder
  <2>6. /\ es \in Seq(EventFrames \cup {Final, None}) /\ Ordered(es)
        /\ Sent(es) \subseteq Sent(<<carry>>) \cup Coming(ms)
        /\ Sent(<<CarryAfter(ms)>>) \subseteq Coming(ms)
        /\ Precede(Sent(es), Sent(<<CarryAfter(ms)>>))
    BY <2>2, <2>3, <2>4, <2>5, EventsOf, Zenon
  <2>7. LinkOrder' /\ Passed(es)
    BY <1>3, <2>1, <2>2, <2>3, <2>6, BytesLink, Zenon
  <2>8. es \in Seq(Queueable)
    BY <2>6 DEF Queueable
  <2>9. Precede(Sent(log), Sent(es))
    <3>1. Precede(Sent(log) \cup Sent(queue), Sent(<<carry>>))
      BY Zenon DEF EventOrder
    <3>2. Precede(Sent(log) \cup Sent(queue) \cup Sent(<<carry>>), Coming(inbound[1]))
      <4>1. 1 \in 1..Len(inbound)
        BY <2>4 DEF Reads
      <4> QED BY <4>1, Zenon DEF EventOrder
    <3> QED BY <2>5, <2>6, <3>1, <3>2, Zenon DEF Precede
  <2>10. /\ Ordered(log') /\ Ordered(queue') /\ Precede(Sent(log'), Sent(queue'))
         /\ Sent(log') \subseteq Sent(log) \cup Sent(es) /\ Sent(queue') \subseteq Sent(es)
    BY <1>1, <2>6, <2>7, <2>8, <2>9, PassedOrder, Zenon
  <2>11. EventOrder'
    BY <2>4, <2>5, <2>6, <2>10, ReadOrder, Zenon
  <2> QED BY <2>7, <2>11, Zenon
<1> QED BY <1>2, <1>3, Zenon

\* Every step of the host, the device and the handlers keeps the invariant.
LEMMA BridgeStep ==
  ASSUME BridgeInv, [BNext]_bvars
  PROVE  BridgeInv'
<1>1. CommandInv /\ EventOrder /\ LinkOrder /\ Reads /\ Parties /\ reads \in Nat
  BY Zenon DEF BridgeInv, CommandInv, EventOrder
<1>2. ASSUME UNCHANGED <<log, queue, carry, inbound, reads, links, final>>,
             host' = "closing" => host = "closing"
      PROVE  EventOrder' /\ LinkOrder'
  <2>1. /\ Ordered(log) /\ Ordered(queue) /\ Precede(Sent(log), Sent(queue))
        /\ log' = log /\ queue' = queue
    BY <1>1, <1>2, Zenon DEF EventOrder
  <2>2. EventOrder'
    BY <1>1, <1>2, <2>1, KeptOrder, Zenon
  <2>3. LinkOrder'
    BY <1>1, <1>2, LinkQuiet, Zenon
  <2> QED BY <2>2, <2>3, Zenon
<1>3. CASE RecvQueued
  <2>1. /\ UNCHANGED <<book, slot, crossed, at, cancels, unanswered, inbound, carry>>
        /\ link' # "Closed" \/ link' = link
    BY <1>3, Zenon DEF RecvQueued, wire, book, cmdvars, device
  <2>2. CommandInv'
    BY <1>1, <2>1, CommandsQuiet, Zenon
  <2> QED BY <1>1, <1>3, <2>2, RecvStep, Zenon DEF BridgeInv
<1>4. CASE RecvBytes
  BY <1>1, <1>4, RecvBytesCommands, RecvStep, Zenon DEF BridgeInv
<1>5. CASE RecvDrop
  BY <1>1, <1>5, DrainCommands, DropStep, Zenon DEF BridgeInv
<1>6. CASE HostClose
  BY <1>1, <1>6, DrainCommands, CloseStep, Zenon DEF BridgeInv
<1>7. CASE HostSetup \/ HostDispatch \/ HostStops \/ BridgeHandlerReturns \/ BridgeShutdown
  <2>1. UNCHANGED <<log, queue, carry, inbound, reads, links, final>>
    BY <1>7, Zenon DEF HostSetup, HostDispatch, HostStops, BridgeHandlerReturns, BridgeShutdown, wire,
                device, hostvars
  <2>2. host' = "closing" => host = "closing"
    BY <1>7, Zenon DEF HostSetup, HostDispatch, HostStops, BridgeHandlerReturns, BridgeShutdown, hostvars
  <2>3. /\ UNCHANGED <<book, slot, crossed, at, cancels, unanswered, inbound, carry>>
        /\ link' # "Closed" \/ link' = link
    BY <1>7, Zenon DEF HostSetup, HostDispatch, HostStops, BridgeHandlerReturns, BridgeShutdown, wire,
                book, cmdvars, device
  <2>4. CommandInv'
    BY <1>1, <2>3, CommandsQuiet, Zenon
  <2> QED BY <1>2, <2>1, <2>2, <2>4, Zenon DEF BridgeInv
<1>8. CASE DeviceSends \/ DeviceSendsHalf \/ DeviceSendsRest \/ DeviceDrops
  <2>1. UNCHANGED <<links, queue, hostvars>>
    <3>1. CASE DeviceSends BY <3>1, Zenon DEF DeviceSends
    <3>2. CASE DeviceSendsHalf BY <3>2, Zenon DEF DeviceSendsHalf
    <3>3. CASE DeviceSendsRest BY <3>3, Zenon DEF DeviceSendsRest
    <3>4. CASE DeviceDrops BY <3>4, Zenon DEF DeviceDrops
    <3> QED BY <1>8, <3>1, <3>2, <3>3, <3>4, Zenon
  <2>2. UNCHANGED <<links, queue, log, final>> /\ host' = host
    BY <2>1, Zenon DEF hostvars
  <2> QED BY <1>1, <1>8, <2>2, DeviceSteps, DeviceOrder, LinkQuiet, Zenon DEF BridgeInv
<1>9. ASSUME NEW r \in Requests, CommandStep(r) \/ HandlerDropped(r) \/ SpawnedCancel(r)
      PROVE  BridgeInv'
  <2>1. UNCHANGED <<log, queue, carry, inbound, reads, links, final>> /\ host' = host
    BY <1>9, Zenon DEF CommandStep, SendCommand, CommandReplied, CommandGivenUp, CommandCancelled,
                HandlerDropped, SpawnedCancel, wire, device, hostvars
  <2>2. CommandInv'
    BY <1>1, <1>9, SendCommandStep, HandlerSteps, Zenon DEF CommandStep
  <2> QED BY <1>2, <2>1, <2>2, Zenon DEF BridgeInv
<1>10. CASE UNCHANGED bvars
  <2>1. UNCHANGED <<log, queue, carry, inbound, reads, links, final>> /\ host' = host
    BY <1>10, Zenon DEF bvars
  <2>2. /\ UNCHANGED <<book, slot, crossed, at, cancels, unanswered, inbound, carry>>
        /\ link' # "Closed" \/ link' = link
    BY <1>10, Zenon DEF bvars, book
  <2>3. CommandInv'
    BY <1>1, <2>2, CommandsQuiet, Zenon
  <2> QED BY <1>2, <2>1, <2>3, Zenon DEF BridgeInv
<1> QED BY <1>3, <1>4, <1>5, <1>6, <1>7, <1>8, <1>9, <1>10, Zenon DEF BNext, HostStepB

\* The bookkeeping of the commands and the order of the events hold for any requests,
\* any sequences among them, any number of reads and any RETIRED_SEQUENCE_LIMIT.
THEOREM BridgeInvariance == BSpec => []BridgeInv
<1>1. BInit => BridgeInv
  <2> SUFFICES ASSUME BInit PROVE BridgeInv
    BY Zenon
  <2>1. /\ inbound = <<>> /\ carry = None /\ pend = [s \in Seqs |-> 0] /\ retired = <<>>
        /\ queue = <<>> /\ links = 0 /\ at = [r \in Requests |-> "new"]
        /\ slot = [r \in Requests |-> "none"] /\ cancels = {} /\ host = "setup" /\ log = <<>>
        /\ unanswered = {} /\ reads = 0 /\ ended = [s \in Seqs |-> 0] /\ retires = 0
        /\ link = "Disconnected"
    BY Zenon DEF BInit
  <2>2. final = FALSE /\ crossed = FALSE
    BY Zenon DEF BInit
  <2>3. Len(<<>>) = 0 /\ 1..0 = {}
    OBVIOUS
  <2>4. Ledger /\ Commands
    BY <2>1, <2>3 DEF Ledger, Commands
  <2>5. Parties /\ Reads
    BY <2>1, <2>3 DEF Parties, Reads
  <2>6. CommandInv
    BY <2>1, <2>2, <2>4, <2>5, Zenon DEF CommandInv
  <2>7. \A n \in Nat : None # Event(n)
    BY Zenon DEF None, Event
  <2>8. Sent(<<carry>>) = {} /\ Sent(<<>>) = {} /\ Ordered(<<>>)
    BY <2>1, <2>3, <2>7, SentOne DEF Sent, Ordered
  <2>9. EventOrder
    BY <2>1, <2>3, <2>8, Zenon DEF EventOrder, Precede
  <2>10. LinkOrder
    <3>1. final \in BOOLEAN
      BY <2>2, Zenon
    <3>3. host # "closing"
      BY <2>1, Zenon
    <3>4. ~(Len(log) > 0)
      BY <2>1, <2>3
    <3>2. links \in Nat /\ queue \in Seq(Queueable) /\ log \in Seq(LogEntries) /\ 1..Len(log) = {}
      BY <2>1, <2>3
    <3> QED BY <3>1, <3>2, <3>3, <3>4, Zenon DEF LinkOrder
  <2> QED BY <2>6, <2>9, <2>10, Zenon DEF BridgeInv
<1>2. BridgeInv /\ [BNext]_bvars => BridgeInv'
  BY BridgeStep, Zenon
<1> QED BY <1>1, <1>2, PTL DEF BSpec

\* Nothing crosses on a connection: no late reply or cancel_command ends another request's
\* command while its sequence is among the retired ones, events are dispatched in the order
\* the device sent them, an interruption is followed by its recovery, and a closed
\* connection has no pending command.
THEOREM NothingDoesCross == BSpec => []NothingCrosses
<1>1. BridgeInv => NothingCrosses
  <2> SUFFICES ASSUME BridgeInv PROVE NothingCrosses
    BY Zenon
  <2>1. ~crossed
    BY Zenon DEF BridgeInv, CommandInv
  <2>2. log \in Seq(LogEntries) /\ DOMAIN log = 1..Len(log) /\ Ordered(log)
    BY DEF BridgeInv, LinkOrder, EventOrder
  <2>3. ASSUME NEW i \in DOMAIN log, log[i][1] = "event"
        PROVE  log[i][2] \in Nat /\ log[i] = Event(log[i][2])
    <3>1. log[i] \in LogEntries
      BY <2>2
    <3>2. log[i] \in EventFrames
      BY <2>3, <3>1 DEF LogEntries, Queueable, Interruptions, Recoveries, Final, None, Bad
    <3> QED BY <3>2 DEF EventFrames, Event
  <2>4. ASSUME NEW i \in DOMAIN log, NEW j \in DOMAIN log, i < j, log[i][1] = "event", log[j][1] = "event"
        PROVE  log[i][2] < log[j][2]
    <3>1. PICK m \in Nat : m = log[i][2] /\ log[i] = Event(m)
      BY <2>3, <2>4, Zenon
    <3>2. PICK n \in Nat : n = log[j][2] /\ log[j] = Event(n)
      BY <2>3, <2>4, Zenon
    <3>3. m < n
      BY <2>2, <2>4, <3>1, <3>2, Zenon DEF Ordered
    <3> QED BY <3>1, <3>2, <3>3, Zenon
  <2>5. ASSUME NEW i \in DOMAIN log, log[i][1] = "interrupted", i < Len(log)
        PROVE  log[i + 1] = <<"recovered", log[i][2]>>
    <3>1. log[i] \in LogEntries
      BY <2>2
    <3>2. log[i] \in Interruptions
      BY <2>5, <3>1 DEF LogEntries, Queueable, EventFrames, Event, Recoveries, Final, None, Bad
    <3> QED BY <2>2, <2>5, <3>2, Zenon DEF BridgeInv, LinkOrder
  <2>6. link = "Closed" => PendingSeqs = {}
    BY Zenon DEF BridgeInv, CommandInv
  <2> QED BY <2>1, <2>4, <2>5, <2>6, Zenon DEF NothingCrosses
<1> QED BY <1>1, BridgeInvariance, PTL
=============================================================================
