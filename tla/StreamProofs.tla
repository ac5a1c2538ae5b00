---------------------------- MODULE StreamProofs -----------------------------
(***************************************************************************)
(* What the modules of MCStreams promise for any number of processes,       *)
(* starts, requests and reads: the path of a Unix socket (UnixSocket) and    *)
(* the commands on the device connection of the examples (ControllerBridge,  *)
(* whose events are in BridgeProofs).                                        *)
(***************************************************************************)
EXTENDS ControllerBridge, UnixSocket, FiniteSetTheorems, SequenceTheorems, TLAPS

-----------------------------------------------------------------------------
(* UnixSocket                                                              *)

\* Only a serving process has a listener; only a socket is removed; and while no two
\* starts have met, one that got past its probe found no listener.
SocketInv ==
  /\ pc \in [Processes -> Inside \cup {"down", "serving", "fatal", "timeout"}]
  /\ starts \in [Processes -> Nat] /\ met \in BOOLEAN
  /\ \A p \in Processes : pc[p] # "down" => starts[p] # 0
  /\ \A p \in Processes : pc[p] = "remove" => path # File
  /\ \A s \in listening : \E p \in Processes : s = Socket(p) /\ pc[p] = "serving"
  /\ ~met =>
       /\ \A p, q \in Processes : pc[p] \in Inside /\ pc[q] \in Inside => p = q
       /\ \A s \in listening : path = s
       /\ \A p \in Processes : pc[p] \in {"restat", "remove", "bind"} => listening = {}

\* A step of try_new that leaves path, listener and starts alone: it may only get past
\* its probe where there is no listener, and to the removal where there is no file.
LEMMA Moved ==
  ASSUME SocketInv, NEW p \in Processes, NEW l, pc[p] \in Inside,
         UNCHANGED <<path, listening, starts, met>>, Goto(p, l),
         l \in Inside \cup {"fatal", "timeout"},
         l = "remove" => path # File,
         l \in {"restat", "remove", "bind"} => met \/ listening = {}
  PROVE  SocketInv'
<1>1. /\ pc' \in [Processes -> Inside \cup {"down", "serving", "fatal", "timeout"}]
      /\ \A q \in Processes : pc'[q] = IF q = p THEN l ELSE pc[q]
  BY Zenon DEF SocketInv, Goto
<1>2. l \notin {"down", "serving"} /\ pc[p] \notin {"down", "serving"}
  BY Zenon DEF Inside
<1>3. \A s \in listening' : \E q \in Processes : s = Socket(q)' /\ pc'[q] = "serving"
  BY <1>1, <1>2, Zenon DEF SocketInv, Socket
<1>4. ASSUME ~met
      PROVE  /\ \A q, r \in Processes : pc'[q] \in Inside /\ pc'[r] \in Inside => q = r
             /\ \A s \in listening : path = s
             /\ \A q \in Processes : pc'[q] \in {"restat", "remove", "bind"} => listening = {}
  BY <1>1, <1>4, Zenon DEF SocketInv
<1>5. /\ \A q \in Processes : pc'[q] # "down" => starts[q] # 0
      /\ \A q \in Processes : pc'[q] = "remove" => path # File
  BY <1>1, <1>2, Zenon DEF SocketInv
<1> QED BY <1>1, <1>3, <1>4, <1>5, Zenon DEF SocketInv, File

\* Every step of the processes and of the clients keeps the invariant.
LEMMA SocketStep ==
  ASSUME SocketInv, [UNext]_uvars
  PROVE  SocketInv'
<1>1. ASSUME NEW p \in Processes, Start(p) PROVE SocketInv'
  <2>1. /\ pc[p] = "down" /\ UNCHANGED <<path, listening>>
        /\ pc' = [pc EXCEPT ![p] = "stat"] /\ starts' = [starts EXCEPT ![p] = starts[p] + 1]
    BY <1>1, Zenon DEF Start, Goto
  <2>2. met' <=> met \/ \E q \in Processes : pc[q] \in Inside
    BY <1>1, Zenon DEF Start
  <2>3. met' \in BOOLEAN
    BY <1>1, Zenon DEF Start
  <2>4. /\ pc' \in [Processes -> Inside \cup {"down", "serving", "fatal", "timeout"}]
        /\ starts' \in [Processes -> Nat] /\ starts'[p] # 0
        /\ \A q \in Processes : /\ pc'[q] = IF q = p THEN "stat" ELSE pc[q]
                                /\ q # p => starts'[q] = starts[q]
    BY <2>1 DEF SocketInv, Inside
  <2>5. \A s \in listening' : \E q \in Processes : s = Socket(q)' /\ pc'[q] = "serving"
    BY <2>1, <2>4, Zenon DEF SocketInv, Socket
  <2>6. ASSUME ~met'
        PROVE  /\ \A q, r \in Processes : pc'[q] \in Inside /\ pc'[r] \in Inside => q = r
               /\ \A s \in listening : path = s
               /\ \A q \in Processes : pc'[q] \in {"restat", "remove", "bind"} => listening = {}
    BY <2>2, <2>4, <2>6, Zenon DEF SocketInv
  <2>7. /\ \A q \in Processes : pc'[q] # "down" => starts'[q] # 0
        /\ \A q \in Processes : pc'[q] = "remove" => path # File
    BY <2>4, Zenon DEF SocketInv
  <2> QED BY <2>1, <2>3, <2>4, <2>5, <2>6, <2>7, Zenon DEF SocketInv, File
<1>2. ASSUME NEW p \in Processes, Stat(p) PROVE SocketInv'
  <2>1. /\ pc[p] \in Inside /\ UNCHANGED <<path, listening, starts, met>>
        /\ Goto(p, IF path = Nothing THEN "bind" ELSE "probe")
    BY <1>2, Zenon DEF Stat, Inside
  <2>2. path = Nothing => met \/ listening = {}
    BY Zenon DEF SocketInv, Socket, Nothing
  <2> QED BY <2>1, <2>2, Moved, Zenon DEF Inside
<1>3. ASSUME NEW p \in Processes, Probe(p) PROVE SocketInv'
  <2>1. /\ pc[p] \in Inside /\ UNCHANGED <<path, listening, starts, met>>
        /\ Goto(p, IF path \in listening THEN "fatal" ELSE "restat")
    BY <1>3, Zenon DEF Probe, Inside
  <2>2. path \notin listening => met \/ listening = {}
    BY Zenon DEF SocketInv
  <2> QED BY <2>1, <2>2, Moved DEF Inside
<1>4. ASSUME NEW p \in Processes, Restat(p) PROVE SocketInv'
  <2>1. /\ pc[p] = "restat" /\ UNCHANGED <<path, listening, starts, met>>
        /\ Goto(p, IF path = Nothing THEN "bind" ELSE IF path = File THEN "fatal" ELSE "remove")
    BY <1>4, Zenon DEF Restat
  <2>2. met \/ listening = {}
    BY <2>1, Zenon DEF SocketInv
  <2> QED BY <2>1, <2>2, Moved DEF Inside
<1>5. ASSUME NEW p \in Processes, RemoveStale(p) PROVE SocketInv'
  <2>1. /\ pc[p] = "remove" /\ path' = Nothing /\ UNCHANGED <<listening, starts, met>>
        /\ pc' = [pc EXCEPT ![p] = "bind"]
    BY <1>5, Zenon DEF RemoveStale, Goto
  <2>2. /\ pc' \in [Processes -> Inside \cup {"down", "serving", "fatal", "timeout"}]
        /\ \A q \in Processes : pc'[q] = IF q = p THEN "bind" ELSE pc[q]
    BY <2>1, Zenon DEF SocketInv, Inside
  <2>3. \A s \in listening' : \E q \in Processes : s = Socket(q)' /\ pc'[q] = "serving"
    BY <2>1, <2>2, Zenon DEF SocketInv, Socket
  <2>4. ASSUME ~met'
        PROVE  /\ \A q, r \in Processes : pc'[q] \in Inside /\ pc'[r] \in Inside => q = r
               /\ listening' = {}
    BY <2>1, <2>2, <2>4, Zenon DEF SocketInv, Inside
  <2>5. /\ \A q \in Processes : pc'[q] # "down" => starts'[q] # 0
        /\ Nothing # File
    BY <2>1, <2>2, Zenon DEF SocketInv, Nothing, File
  <2> QED BY <2>1, <2>2, <2>3, <2>4, <2>5, Zenon DEF SocketInv, File
<1>6. ASSUME NEW p \in Processes, Bind(p) PROVE SocketInv'
  <2>1. CASE path # Nothing
    <3>1. /\ pc[p] \in Inside /\ UNCHANGED <<path, listening, starts, met>>
          /\ Goto(p, IF tries[p] + 1 < MaxTries THEN "stat" ELSE "timeout")
      BY <1>6, <2>1, Zenon DEF Bind, Inside
    <3> QED BY <3>1, Moved DEF Inside
  <2>2. CASE path = Nothing
    <3>1. /\ pc[p] = "bind" /\ path' = Socket(p) /\ listening' = listening \cup {Socket(p)}
          /\ UNCHANGED <<starts, met>> /\ pc' = [pc EXCEPT ![p] = "serving"]
      BY <1>6, <2>2, Zenon DEF Bind, Goto
    <3>2. /\ pc' \in [Processes -> Inside \cup {"down", "serving", "fatal", "timeout"}]
          /\ \A q \in Processes : pc'[q] = IF q = p THEN "serving" ELSE pc[q]
      BY <3>1, Zenon DEF SocketInv, Inside
    <3>3. \A s \in listening' : \E q \in Processes : s = Socket(q)' /\ pc'[q] = "serving"
      BY <3>1, <3>2, Zenon DEF SocketInv, Socket
    <3>4. ASSUME ~met'
          PROVE  /\ \A q, r \in Processes : pc'[q] \in Inside /\ pc'[r] \in Inside => q = r
                 /\ \A s \in listening' : path' = s
                 /\ \A q \in Processes : pc'[q] \notin Inside
      BY <3>1, <3>2, <3>4, Zenon DEF SocketInv, Inside
    <3>5. /\ \A q \in Processes : pc'[q] # "down" => starts'[q] # 0
          /\ Socket(p) # File
      BY <3>1, <3>2, Zenon DEF SocketInv, Socket, File
    <3> QED BY <3>1, <3>2, <3>3, <3>4, <3>5, Zenon DEF SocketInv, File, Inside
  <2> QED BY <2>1, <2>2, Zenon
<1>7. ASSUME NEW p \in Processes, Exit(p) PROVE SocketInv'
  <2>1. /\ listening' = listening \ {Socket(p)} /\ UNCHANGED <<path, starts, met>>
        /\ pc' = [pc EXCEPT ![p] = "down"]
    BY <1>7, Zenon DEF Exit, Goto
  <2>2. /\ pc' \in [Processes -> Inside \cup {"down", "serving", "fatal", "timeout"}]
        /\ \A q \in Processes : pc'[q] = IF q = p THEN "down" ELSE pc[q]
    BY <2>1, Zenon DEF SocketInv, Inside
  <2>3. \A s \in listening' : \E q \in Processes : s = Socket(q)' /\ pc'[q] = "serving"
    BY <2>1, <2>2, Zenon DEF SocketInv, Socket
  <2>4. "down" \notin Inside
    BY Zenon DEF Inside
  <2> QED BY <2>1, <2>2, <2>3, <2>4 DEF SocketInv, File
<1>8. ASSUME UNCHANGED <<path, listening, pc, starts, met>> PROVE SocketInv'
  BY <1>8, Zenon DEF SocketInv, Socket, File
<1> QED BY <1>1, <1>2, <1>3, <1>4, <1>5, <1>6, <1>7, <1>8, Zenon DEF UNext, TryNew, Connect, uvars

\* bind_prelude's steps keep apart what they may and may not remove.
THEOREM SocketInvariance == USpec => []SocketInv
<1>1. UInit => SocketInv
  <2> SUFFICES ASSUME UInit PROVE SocketInv
    BY Zenon
  <2>1. /\ pc = [p \in Processes |-> "down"] /\ starts = [p \in Processes |-> 0]
        /\ listening = {} /\ met = FALSE
    BY Zenon DEF UInit
  <2>2. /\ pc \in [Processes -> Inside \cup {"down", "serving", "fatal", "timeout"}]
        /\ \A p \in Processes : pc[p] = "down" /\ pc[p] \notin Inside
    BY <2>1, Zenon DEF Inside
  <2> QED BY <2>1, <2>2, Zenon DEF SocketInv
<1> QED BY <1>1, SocketStep, PTL DEF USpec

\* However many daemons share the path: as long as no two starts of try_new overlap, the
\* listener that is open is the one the path names.
THEOREM ListenersAreReachable == USpec => []ListenerReachable
<1>1. SocketInv => ListenerReachable
  BY Zenon DEF SocketInv, ListenerReachable
<1> QED BY <1>1, SocketInvariance, PTL

\* And however they overlap, remove_file never takes an ordinary file from the path.
THEOREM FilesAreKept == USpec => [][path = File => path' = File]_uvars
<1>1. SocketInv /\ [UNext]_uvars => [path = File => path' = File]_uvars
  <2> SUFFICES ASSUME SocketInv, [UNext]_uvars, path = File PROVE path' = File
    BY Zenon
  <2>1. File # Nothing
    BY Zenon DEF File, Nothing
  <2>2. ASSUME NEW p \in Processes, RemoveStale(p) PROVE FALSE
    BY <2>2, Zenon DEF RemoveStale, SocketInv
  <2> QED BY <2>1, <2>2, Zenon DEF UNext, TryNew, Start, Stat, Probe, Restat, Bind, Exit, Connect, uvars
<1> QED BY <1>1, SocketInvariance, PTL DEF USpec

-----------------------------------------------------------------------------
(* ControllerBridge: the commands                                          *)

\* retired_sequences_order holds the last retirements, RETIRED_SEQUENCE_LIMIT of them:
\* a sequence is at the place of its last one as long as that is among them.
Ledger ==
  /\ retires \in Nat /\ ended \in [Seqs -> Nat] /\ retired \in Seq(Seqs)
  /\ Len(retired) <= retires /\ (Len(retired) = retires \/ Len(retired) >= RetiredLimit)
  /\ \A s \in Seqs : ended[s] <= retires
  /\ \A s \in Seqs : ended[s] > retires - Len(retired) =>
                       retired[ended[s] - (retires - Len(retired))] = s

\* A command that was sent is pending or its sequence has been retired since; and a
\* command is only pending on a sequence whose last retirement is forgotten, or that
\* never had one.
Commands ==
  /\ pend \in [Seqs -> Requests \cup {0}]
  /\ slot \in [Requests -> {"none", "open", "ok", "err"}]
  /\ \A s \in Seqs : pend[s] # 0 => SequenceOf[pend[s]] = s
  /\ \A s \in Seqs : pend[s] # 0 /\ ended[s] # 0 => retires - ended[s] >= RetiredLimit
  /\ \A r \in Requests : slot[r] # "none" => pend[SequenceOf[r]] = r \/ ended[SequenceOf[r]] # 0

\* Whoever may still end a command belongs to one that was sent.
Parties ==
  /\ at \in [Requests -> {"new", "sent", "cancel", "over"}]
  /\ cancels \subseteq Requests /\ unanswered \subseteq Requests
  /\ \A r \in Requests : at[r] \in {"sent", "cancel"} \/ r \in cancels \cup unanswered
                         => slot[r] # "none"

\* What a read may hold.
ReplyFrames == {Reply(r, f) : r \in Requests, f \in BOOLEAN}
EventFrames == {Event(n) : n \in Nat}
Heads == {<<"head", Event(n)>> : n \in Nat}
Others == {Final, Bad, Oversized, Drop, <<"rest">>}
Frame == ReplyFrames \cup EventFrames \cup Heads \cup Others

ReadOk(ms) ==
  /\ ms \in Seq(Frame) /\ Len(ms) \in {1, 2} /\ \A i, j \in Replies(ms) : i = j
  /\ Len(ms) = 2 => \A i \in {1, 2} : ms[i] \notin Heads \cup {Drop, <<"rest">>}

\* Its replies are to commands that were sent.
Known(ms) ==
  \A i \in 1..Len(ms), r \in Requests, f \in BOOLEAN : ms[i] = Reply(r, f) => slot[r] # "none"

Reads ==
  /\ inbound \in Seq(Seq(Frame)) /\ carry \in EventFrames \cup {None}
  /\ \A k \in 1..Len(inbound) : ReadOk(inbound[k]) /\ Known(inbound[k])

CommandInv ==
  /\ Ledger /\ Commands /\ Parties /\ Reads
  /\ crossed = FALSE
  /\ link = "Closed" => PendingSeqs = {}

-----------------------------------------------------------------------------
(* Proofs about the commands                                               *)

\* retire_sequence keeps the last retirements in order, whatever is retired.
LEMMA RetireKeeps ==
  ASSUME Ledger, NEW ss \in Seq(Seqs), Retire(ss)
  PROVE  /\ Ledger' /\ retires' = retires + Len(ss)
         /\ \A s \in Seqs : IF \E i \in 1..Len(ss) : ss[i] = s THEN ended'[s] > retires
                            ELSE ended'[s] = ended[s]
<1>1. /\ retired \in Seq(Seqs) /\ retires \in Nat /\ Len(retired) <= retires
      /\ (Len(retired) = retires \/ Len(retired) >= RetiredLimit)
  BY Zenon DEF Ledger
<1>2. PICK L \in Nat, k \in Nat : L = Len(retired) /\ k = Len(ss)
  BY <1>1
<1>3. PICK b \in Nat : retires = b + L /\ (b = 0 \/ L >= RetiredLimit)
  <2>1. retires - L \in Nat /\ retires = (retires - L) + L
    BY <1>1, <1>2
  <2> QED BY <1>1, <1>2, <2>1
<1>4. PICK all \in Seq(Seqs) : all = retired \o ss
  BY <1>1, ConcatProperties, Zenon
<1>5. /\ Len(all) = L + k /\ \A i \in 1..L : all[i] = retired[i]
      /\ \A i \in 1..k : all[L + i] = ss[i]
  <2>1. Len(all) = L + k /\ \A i \in 1..L + k : all[i] = IF i <= L THEN retired[i] ELSE ss[i - L]
    BY <1>1, <1>2, <1>4, ConcatProperties
  <2>2. \A i \in 1..k : L + i \in 1..L + k /\ ~(L + i <= L) /\ (L + i) - L = i
    OBVIOUS
  <2>3. \A i \in 1..L : i \in 1..L + k /\ i <= L
    OBVIOUS
  <2> QED BY <2>1, <2>2, <2>3, Zenon
<1>6. PICK c \in Nat : c = IF L + k > RetiredLimit THEN L + k - RetiredLimit ELSE 0
  BY BridgeAssumption
<1>7. c <= L + k
  BY <1>6, BridgeAssumption
<1>8. retired' = SubSeq(all, 1 + c, L + k) /\ retires' = b + L + k
  <2>1. retired' = SubSeq(all, 1 + (IF Len(all) > RetiredLimit THEN Len(all) - RetiredLimit ELSE 0),
                          Len(all))
    BY <1>4, Zenon DEF Retire
  <2>2. retires' = retires + Len(ss)
    BY Zenon DEF Retire
  <2>3. Len(all) = L + k /\ c = IF Len(all) > RetiredLimit THEN Len(all) - RetiredLimit ELSE 0
    BY <1>5, <1>6, BridgeAssumption
  <2>4. retired' = SubSeq(all, 1 + c, L + k)
    BY <2>1, <2>3, Zenon
  <2>5. retires' = b + L + k
    BY <1>2, <1>3, <2>2, Zenon
  <2> QED BY <2>4, <2>5, Zenon
<1>9. /\ retired' \in Seq(Seqs) /\ Len(retired') = L + k - c
       /\ \A j \in 1..(L + k - c) : retired'[j] = all[c + j]
  <2>1. \A i \in 1 + c..L + k : all[i] \in Seqs
    BY <1>5
  <2>2. /\ 1 + c \in Int /\ L + k \in Int /\ (1 + c <= L + k => L + k - (1 + c) + 1 = L + k - c)
        /\ (~(1 + c <= L + k) => 0 = L + k - c) /\ L + k - (1 + c) + 1 = L + k - c
    BY <1>7
  <2>3. /\ retired' \in Seq(Seqs)
        /\ Len(retired') = IF 1 + c <= L + k THEN L + k - (1 + c) + 1 ELSE 0
        /\ \A i \in 1..L + k - (1 + c) + 1 : retired'[i] = all[1 + c + i - 1]
    BY <1>8, <2>1, <2>2, SubSeqProperties
  <2>4. \A j \in 1..(L + k - c) : 1 + c + j - 1 = c + j
    OBVIOUS
  <2> QED BY <2>2, <2>3, <2>4, Zenon
<1>10. /\ ended' \in [Seqs -> Nat]
      /\ \A s \in Seqs : \/ \E i \in 1..k : ss[i] = s /\ ended'[s] = b + L + i
                         \/ (\A i \in 1..k : ss[i] # s) /\ ended'[s] = ended[s]
  <2>1. ASSUME NEW s \in Seqs, \E i \in 1..k : ss[i] = s
        PROVE  (CHOOSE i \in DOMAIN ss : ss[i] = s) \in 1..k
               /\ ss[CHOOSE i \in DOMAIN ss : ss[i] = s] = s
    BY <1>2, <2>1
  <2>2. ended' = [s \in Seqs |-> IF \E i \in 1..k : ss[i] = s
                                   THEN retires + (CHOOSE i \in DOMAIN ss : ss[i] = s) ELSE ended[s]]
    BY <1>2 DEF Retire, Contains
  <2>3. retires = b + L /\ ended \in [Seqs -> Nat]
    BY <1>3, Zenon DEF Ledger
  <2>4. ASSUME NEW s \in Seqs, \E i \in 1..k : ss[i] = s
        PROVE  ended'[s] \in Nat /\ \E i \in 1..k : ss[i] = s /\ ended'[s] = b + L + i
    <3>1. PICK i \in 1..k : i = (CHOOSE j \in DOMAIN ss : ss[j] = s) /\ ss[i] = s
      BY <2>1, <2>4, Zenon
    <3>2. ended'[s] = retires + i
      BY <2>2, <2>4, <3>1, Zenon
    <3>3. ended'[s] = b + L + i /\ b + L + i \in Nat
      BY <2>3, <3>2
    <3> QED BY <3>1, <3>3, Zenon
  <2>5. ASSUME NEW s \in Seqs, ~\E i \in 1..k : ss[i] = s
        PROVE  ended'[s] \in Nat /\ ended'[s] = ended[s]
    BY <2>2, <2>3, <2>5, Zenon
  <2> QED BY <2>2, <2>4, <2>5, Zenon
<1>11. ASSUME NEW s \in Seqs
      PROVE  ended'[s] <= b + L + k /\ (ended'[s] > b => all[ended'[s] - b] = s)
  <2>1. CASE \E i \in 1..k : ss[i] = s /\ ended'[s] = b + L + i
    <3>1. PICK i \in 1..k : ss[i] = s /\ ended'[s] = b + L + i
      BY <2>1, Zenon
    <3>2. ended'[s] - b = L + i
      BY <3>1
    <3> QED BY <1>5, <3>1, <3>2
  <2>2. CASE ended'[s] = ended[s]
    <3>1. /\ ended[s] \in Nat /\ ended[s] <= b + L
          /\ (ended[s] > b => retired[ended[s] - b] = s)
      BY <1>2, <1>3 DEF Ledger
    <3>2. ended[s] > b => ended[s] - b \in 1..L
      BY <3>1
    <3> QED BY <1>5, <2>2, <3>1, <3>2
  <2> QED BY <1>10, <2>1, <2>2, Zenon
<1>12. ASSUME NEW s \in Seqs, ended'[s] > b + c
      PROVE  retired'[ended'[s] - (b + c)] = s
  <2>1. ended'[s] \in Nat /\ ended'[s] <= b + L + k
    BY <1>10, <1>11, Zenon
  <2>2. ended'[s] - (b + c) \in 1..(L + k - c) /\ c + (ended'[s] - (b + c)) = ended'[s] - b
    BY <1>7, <1>12, <2>1
  <2>3. ended'[s] > b
    BY <1>12, <2>1
  <2> QED BY <1>11, <1>9, <2>2, <2>3, Zenon
<1>13. /\ Len(retired') <= retires' /\ retires' - Len(retired') = b + c /\ retires' \in Nat
      /\ (Len(retired') = retires' \/ Len(retired') >= RetiredLimit)
  <2>1. RetiredLimit \in Nat
    BY BridgeAssumption, Zenon
  <2>2. retires' = b + L + k /\ Len(retired') = L + k - c
    BY <1>8, <1>9, Zenon
  <2>3. L + k - c <= b + L + k /\ b + L + k - (L + k - c) = b + c /\ b + L + k \in Nat
    BY <1>7
  <2>4. L + k - c = b + L + k \/ L + k - c >= RetiredLimit
    BY <1>3, <1>6, <2>1
  <2> QED BY <2>2, <2>3, <2>4
<1>14. Ledger'
  BY <1>10, <1>11, <1>12, <1>13, <1>8, <1>9, Zenon DEF Ledger
<1>15. ASSUME NEW s \in Seqs
       PROVE  IF \E i \in 1..k : ss[i] = s THEN ended'[s] > retires ELSE ended'[s] = ended[s]
  <2>1. CASE \E i \in 1..k : ss[i] = s
    <3>1. PICK i \in 1..k : ended'[s] = b + L + i
      BY <1>10, <2>1, Zenon
    <3>2. b + L + i > b + L
      OBVIOUS
    <3> QED BY <1>3, <2>1, <3>1, <3>2, Zenon
  <2>2. CASE ~\E i \in 1..k : ss[i] = s
    BY <1>10, <2>2, Zenon
  <2> QED BY <2>1, <2>2, Zenon
<1>16. retires' = retires + k
  BY <1>3, <1>8, Zenon
<1> QED BY <1>2, <1>14, <1>15, <1>16, Zenon

\* A pending command ends, by its reply or by a cancellation, and its sequence is retired.
LEMMA OneEnds ==
  ASSUME Ledger, Commands, NEW s \in Seqs, pend[s] # 0, NEW v \in {"ok", "err"},
         pend' = [pend EXCEPT ![s] = 0], slot' = [slot EXCEPT ![pend[s]] = v], Retire(<<s>>)
  PROVE  /\ Ledger' /\ Commands'
         /\ \A r \in Requests : slot[r] # "none" => slot'[r] # "none"
<1>1. PICK p \in Requests : p = pend[s] /\ SequenceOf[p] = s
  BY Zenon DEF Commands
<1>2. /\ pend' \in [Seqs -> Requests \cup {0}] /\ \A t \in Seqs : pend'[t] = IF t = s THEN 0 ELSE pend[t]
      /\ slot' \in [Requests -> {"none", "open", "ok", "err"}]
      /\ \A r \in Requests : slot'[r] = IF r = p THEN v ELSE slot[r]
  BY <1>1, Zenon DEF Commands
<1>3. <<s>> \in Seq(Seqs) /\ Len(<<s>>) = 1 /\ <<s>>[1] = s
  OBVIOUS
<1>4. /\ Ledger' /\ retires' = retires + 1 /\ ended'[s] > retires
      /\ \A t \in Seqs : t # s => ended'[t] = ended[t]
  <2>1. /\ Ledger' /\ retires' = retires + Len(<<s>>)
        /\ \A t \in Seqs : IF \E i \in 1..Len(<<s>>) : <<s>>[i] = t THEN ended'[t] > retires
                           ELSE ended'[t] = ended[t]
    BY <1>3, RetireKeeps, Zenon
  <2>2. \A t : (\E i \in 1..Len(<<s>>) : <<s>>[i] = t) <=> t = s
    OBVIOUS
  <2> QED BY <1>3, <2>1, <2>2, Zenon
<1>5. retires \in Nat /\ ended \in [Seqs -> Nat] /\ ended' \in [Seqs -> Nat]
  BY <1>4, Zenon DEF Ledger
<1>6. \A t \in Seqs : pend'[t] # 0 /\ ended'[t] # 0 => retires' - ended'[t] >= RetiredLimit
  BY <1>2, <1>4, <1>5, BridgeAssumption DEF Commands
<1>7. ASSUME NEW r \in Requests, slot'[r] # "none"
      PROVE  pend'[SequenceOf[r]] = r \/ ended'[SequenceOf[r]] # 0
  <2>1. SequenceOf[r] \in Seqs
    BY Zenon DEF Requests, Seqs, Range
  <2> QED BY <1>1, <1>2, <1>4, <1>5, <1>7, <2>1 DEF Commands
<1>8. \A t \in Seqs : pend'[t] # 0 => SequenceOf[pend'[t]] = t
  BY <1>2, Zenon DEF Commands
<1> QED BY <1>2, <1>4, <1>6, <1>7, <1>8 DEF Commands

\* Every order of draining pending_commands reaches each of them.
LEMMA OrdersCover ==
  ASSUME NEW c \in Orders
  PROVE  c \in Seq(Seqs) /\ \A s \in PendingSeqs : \E i \in 1..Len(c) : c[i] = s
<1>1. IsFiniteSet(PendingSeqs) /\ Cardinality(PendingSeqs) \in Nat
  <2>1. SequenceOf \in Surjection(1..Len(SequenceOf), Seqs)
    BY BridgeAssumption DEF Surjection, Seqs, Range
  <2>2. IsFiniteSet(Seqs)
    BY <2>1, FS_Interval, FS_Surjection, BridgeAssumption
  <2> QED BY <2>2, FS_Subset, FS_CardinalityType, Zenon DEF PendingSeqs
<1>2. PICK n \in Nat : n = Cardinality(PendingSeqs)
  BY <1>1, Zenon
<1>3. c \in [1..n -> PendingSeqs] /\ \A i, j \in 1..n : i # j => c[i] # c[j]
  BY <1>2, Zenon DEF Orders, SetToSeqs
<1>4. c \in Injection(1..n, PendingSeqs)
  BY <1>3, Zenon DEF Injection, IsInjective
<1>5. Cardinality(1..n) = n /\ IsFiniteSet(1..n)
  BY FS_Interval
<1>6. c \in Surjection(1..n, PendingSeqs)
  BY <1>1, <1>2, <1>4, <1>5, FS_Injection, Zenon
<1>7. c \in Seq(Seqs) /\ Len(c) = n
  BY <1>3 DEF PendingSeqs
<1> QED BY <1>6, <1>7, Zenon DEF Surjection

\* drain_pending_commands ends them all.
LEMMA AllEnd ==
  ASSUME Ledger, Commands, NEW c \in Orders, EndAll(c)
  PROVE  /\ Ledger' /\ Commands' /\ PendingSeqs' = {}
         /\ \A r \in Requests : slot[r] # "none" => slot'[r] # "none"
<1>1. /\ pend' = [s \in Seqs |-> 0] /\ Retire(c)
      /\ slot' = [r \in Requests |-> IF \E s \in Seqs : pend[s] = r THEN "err" ELSE slot[r]]
  BY Zenon DEF EndAll
<1>2. c \in Seq(Seqs) /\ \A s \in PendingSeqs : \E i \in 1..Len(c) : c[i] = s
  BY OrdersCover, Zenon
<1>3. /\ Ledger'
      /\ \A s \in Seqs : ended'[s] = ended[s] \/ ended'[s] > retires
      /\ \A s \in Seqs : pend[s] # 0 => ended'[s] > retires
  BY <1>1, <1>2, RetireKeeps, Zenon DEF PendingSeqs
<1>4. retires \in Nat /\ ended \in [Seqs -> Nat] /\ ended' \in [Seqs -> Nat]
  BY <1>3, Zenon DEF Ledger
<1>5. pend' \in [Seqs -> Requests \cup {0}] /\ \A s \in Seqs : pend'[s] = 0
  BY <1>1, Zenon
<1>6. /\ slot' \in [Requests -> {"none", "open", "ok", "err"}]
      /\ \A r \in Requests : slot'[r] = IF \E s \in Seqs : pend[s] = r THEN "err" ELSE slot[r]
  BY <1>1, Zenon DEF Commands
<1>7. ASSUME NEW r \in Requests, slot'[r] # "none" PROVE ended'[SequenceOf[r]] # 0
  <2>1. SequenceOf[r] \in Seqs /\ r # 0
    BY BridgeAssumption DEF Requests, Seqs, Range
  <2>2. CASE \E s \in Seqs : pend[s] = r
    <3>1. pend[SequenceOf[r]] = r
      BY <2>1, <2>2, Zenon DEF Commands
    <3> QED BY <1>3, <1>4, <2>1, <3>1
  <2>3. CASE ~\E s \in Seqs : pend[s] = r
    <3>1. slot[r] # "none" /\ pend[SequenceOf[r]] # r
      BY <1>6, <1>7, <2>1, <2>3, Zenon
    <3>2. ended[SequenceOf[r]] # 0
      BY <3>1, Zenon DEF Commands
    <3> QED BY <1>3, <1>4, <2>1, <3>2
  <2> QED BY <2>2, <2>3, Zenon
<1>8. PendingSeqs' = {}
  BY <1>5, Zenon DEF PendingSeqs
<1> QED BY <1>3, <1>5, <1>6, <1>7, <1>8, Zenon DEF Commands

\* The reads keep their form while the commands that were sent stay sent.
LEMMA ReadsKept ==
  ASSUME Reads, \A r \in Requests : slot[r] # "none" => slot'[r] # "none",
         UNCHANGED inbound, carry' \in EventFrames \cup {None}
  PROVE  Reads'
<1>1. \A k \in 1..Len(inbound) : Known(inbound[k])'
  BY Zenon DEF Reads, Known
<1> QED BY <1>1, SMTT(60) DEF Reads, ReadOk, Replies, Known

\* recv takes the first read.
LEMMA ReadsTaken ==
  ASSUME Reads, \A r \in Requests : slot[r] # "none" => slot'[r] # "none",
         inbound # <<>>, inbound' = Tail(inbound), carry' \in EventFrames \cup {None}
  PROVE  Reads'
<1>1. /\ inbound' \in Seq(Seq(Frame)) /\ Len(inbound') = Len(inbound) - 1 /\ Len(inbound) \in Nat
      /\ \A k \in 1..Len(inbound') : inbound'[k] = inbound[k + 1]
  BY HeadTailProperties DEF Reads
<1>2. \A k \in 1..Len(inbound') : k + 1 \in 1..Len(inbound)
  BY <1>1
<1>3. \A k \in 1..Len(inbound') : ReadOk(inbound[k + 1]) /\ Known(inbound[k + 1])
  BY <1>2, Zenon DEF Reads
<1>4. ASSUME NEW k \in 1..Len(inbound') PROVE ReadOk(inbound[k])' /\ Known(inbound[k])'
  <2>1. inbound'[k] = inbound[k + 1]
    BY <1>1, Zenon
  <2>2. ReadOk(inbound[k])'
    BY <1>3, <2>1 DEF ReadOk, Replies
  <2>3. Known(inbound[k])'
    BY <1>3, <2>1 DEF Known
  <2> QED BY <2>2, <2>3, Zenon
<1> QED BY <1>1, <1>4, Zenon DEF Reads

\* The device adds one.
LEMMA ReadsAdded ==
  ASSUME Reads, UNCHANGED <<slot, carry>>, NEW ms, ReadOk(ms), Known(ms), inbound' = Append(inbound, ms)
  PROVE  Reads'
<1>1. ms \in Seq(Frame)
  BY Zenon DEF ReadOk
<1>2. /\ inbound' \in Seq(Seq(Frame)) /\ Len(inbound') = Len(inbound) + 1 /\ Len(inbound) \in Nat
      /\ \A k \in 1..Len(inbound) : inbound'[k] = inbound[k]
      /\ inbound'[Len(inbound) + 1] = ms
  BY <1>1, AppendProperties DEF Reads
<1>3. \A k \in 1..Len(inbound') : k \in 1..Len(inbound) \/ k = Len(inbound) + 1
  BY <1>2
<1>4. \A k \in 1..Len(inbound') : ReadOk(inbound'[k]) /\ Known(inbound'[k])
  BY <1>2, <1>3, Zenon DEF Reads
<1> QED BY <1>2, <1>4 DEF Reads, ReadOk, Replies, Known

\* What handle_frame is given.
Takeable == ReplyFrames \cup EventFrames \cup {Final, None}

\* The frames of a read that are handled: its own up to the first bad one, or the frame
\* whose second half it is.
LEMMA FramesFacts ==
  ASSUME Reads, NEW ms, ReadOk(ms), ms # <<Drop>>
  PROVE  /\ Frames(ms) \in Seq(Takeable)
         /\ \/ Frames(ms) = <<carry>>
            \/ /\ Len(Frames(ms)) <= Len(ms)
               /\ \A i \in 1..Len(Frames(ms)) : Frames(ms)[i] = ms[i]
         /\ \A i, j \in Replies(Frames(ms)) : i = j
<1>1. /\ ms \in Seq(Frame) /\ Len(ms) \in {1, 2} /\ \A i, j \in Replies(ms) : i = j
      /\ Len(ms) = 2 => \A i \in {1, 2} : ms[i] \notin Heads \cup {Drop, <<"rest">>}
      /\ carry \in EventFrames \cup {None}
  BY Zenon DEF ReadOk, Reads
<1>2. CASE Contains(ms, Oversized) \/ ms[1][1] = "head"
  <2>1. Frames(ms) = <<>>
    BY <1>2, Zenon DEF Frames
  <2> QED BY <1>1, <2>1 DEF Replies
<1>3. CASE ~(Contains(ms, Oversized) \/ ms[1][1] = "head") /\ ms[1][1] = "rest"
  <2>1. carry # Bad /\ carry \in Takeable /\ carry[1] # "reply"
    BY <1>1 DEF EventFrames, Event, None, Bad, Takeable
  <2>2. {i \in DOMAIN <<carry>> : <<carry>>[i] = Bad} = {}
    BY <2>1
  <2>3. Frames(ms) = <<carry>>
    BY <1>3, <2>2, Zenon DEF Frames
  <2> QED BY <2>1, <2>3 DEF Replies
<1>4. CASE ~(Contains(ms, Oversized) \/ ms[1][1] = "head") /\ ms[1][1] # "rest"
  <2> DEFINE bads == {i \in DOMAIN ms : ms[i] = Bad}
  <2>1. Frames(ms) = IF bads = {} THEN ms
                     ELSE SubSeq(ms, 1, (CHOOSE i \in bads : \A j \in bads : i <= j) - 1)
    BY <1>4 DEF Frames
  <2>2. ASSUME NEW i \in 1..Len(ms), ms[i] # Bad PROVE ms[i] \in Takeable
    <3>1. ms[i] \in Frame /\ ms[i] # Oversized
      BY <1>1, <1>4 DEF Contains
    <3>2. ms[i] \notin Heads \cup {Drop, <<"rest">>}
      <4>1. CASE Len(ms) = 2
        BY <1>1, <4>1
      <4>2. CASE Len(ms) = 1
        <5>1. i = 1 /\ ms = <<ms[1]>>
          BY <1>1, <4>2
        <5>2. ms[1] # Drop
          BY <5>1, Zenon
        <5>3. \A x \in Heads : x[1] = "head"
          BY DEF Heads
        <5> QED BY <1>4, <5>1, <5>2, <5>3
      <4> QED BY <1>1, <4>1, <4>2, Zenon
    <3> QED BY <2>2, <3>1, <3>2, Zenon DEF Frame, Others, Takeable
  <2>3. PICK k \in 0..Len(ms) : /\ Frames(ms) = SubSeq(ms, 1, k)
                                /\ \A i \in 1..k : ms[i] # Bad
    <3>1. CASE bads = {}
      <4>1. ms = SubSeq(ms, 1, Len(ms))
        BY <1>1
      <4>2. \A i \in 1..Len(ms) : ms[i] # Bad
        BY <1>1, <3>1
      <4>3. Len(ms) \in 0..Len(ms) /\ Frames(ms) = SubSeq(ms, 1, Len(ms))
        BY <1>1, <2>1, <3>1, <4>1
      <4> QED BY <4>2, <4>3, Zenon
    <3>2. CASE bads # {}
      <4>1. PICK i \in bads : \A j \in bads : i <= j
        <5>1. bads \subseteq {1, 2}
          BY <1>1
        <5> HIDE DEF bads
        <5>2. CASE 1 \in bads
          BY <5>1, <5>2
        <5>3. CASE 1 \notin bads
          <6>1. 2 \in bads /\ \A j \in bads : j = 2
            BY <3>2, <5>1, <5>3, Zenon
          <6> QED BY <6>1
        <5> QED BY <5>2, <5>3, Zenon
      <4>2. PICK m \in bads : /\ m = (CHOOSE x \in bads : \A j \in bads : x <= j)
                              /\ \A j \in bads : m <= j
        <5> HIDE DEF bads
        <5> QED BY <4>1, Zenon
      <4>3. m \in 1..Len(ms) /\ m - 1 \in 0..Len(ms) /\ Frames(ms) = SubSeq(ms, 1, m - 1)
        <5>1. m \in 1..Len(ms) /\ m - 1 \in 0..Len(ms)
          BY <1>1, <4>2
        <5>2. Frames(ms) = SubSeq(ms, 1, m - 1)
          <6> HIDE DEF bads
          <6> QED BY <2>1, <3>2, <4>2, Zenon
        <5> QED BY <5>1, <5>2, Zenon
      <4>4. \A j \in 1..m - 1 : j \in 1..Len(ms) /\ ~(m <= j)
        BY <4>3
      <4>5. \A j \in 1..m - 1 : ms[j] # Bad
        BY <1>1, <4>2, <4>4
      <4> QED BY <4>3, <4>5, Zenon
    <3> QED BY <3>1, <3>2, Zenon
  <2>4. \A i \in 1..k : i \in 1..Len(ms) /\ ms[i] \in Takeable
    BY <2>2, <2>3
  <2>5. /\ Frames(ms) \in Seq(Takeable) /\ Len(Frames(ms)) = k
        /\ \A i \in 1..k : Frames(ms)[i] = ms[i]
    <3>1. /\ SubSeq(ms, 1, k) \in Seq(Takeable)
          /\ Len(SubSeq(ms, 1, k)) = IF 1 <= k THEN k - 1 + 1 ELSE 0
          /\ \A i \in 1..k - 1 + 1 : SubSeq(ms, 1, k)[i] = ms[1 + i - 1]
      BY <2>4, SubSeqProperties
    <3>2. k \in Nat /\ k - 1 + 1 = k /\ (~(1 <= k) => k = 0) /\ \A i \in 1..k : 1 + i - 1 = i
      BY <1>1
    <3> QED BY <2>3, <3>1, <3>2, Zenon
  <2>6. \A i \in Replies(Frames(ms)) : i \in Replies(ms)
    BY <1>1, <2>4, <2>5 DEF Replies
  <2> QED BY <1>1, <2>5, <2>6
<1> QED BY <1>2, <1>3, <1>4, Zenon

\* A reply or a cancellation of request r, taken by its sequence, ends r's own command or,
\* with RETIRED_SEQUENCE_LIMIT retirements between, a later one.
Ends(r, v) ==
  LET s == SequenceOf[r] IN
  IF pend[s] = 0 THEN UNCHANGED <<book, slot, crossed>>
  ELSE /\ pend' = [pend EXCEPT ![s] = 0]
       /\ slot' = [slot EXCEPT ![pend[s]] = v]
       /\ crossed' = (crossed \/ (pend[s] # r /\ retires - ended[s] < RetiredLimit))
       /\ Retire(<<s>>)

\* Ledger and commands only depend on the book and on what the oneshots hold.
LEMMA BookUnchanged ==
  ASSUME Ledger, Commands, UNCHANGED <<book, slot>>
  PROVE  Ledger' /\ Commands' /\ PendingSeqs' = PendingSeqs
<1>1. pend' = pend /\ retired' = retired /\ ended' = ended /\ retires' = retires /\ slot' = slot
  BY Zenon DEF book
<1>2. Ledger'
  BY <1>1, Zenon DEF Ledger
<1>3. Commands'
  BY <1>1, Zenon DEF Commands
<1>4. PendingSeqs' = PendingSeqs
  BY <1>1, Zenon DEF PendingSeqs
<1> QED BY <1>2, <1>3, <1>4, Zenon

\* Neither ends a command that is not its own while the retirement is remembered.
LEMMA EndsStep ==
  ASSUME CommandInv, NEW r \in Requests, NEW v \in {"ok", "err"}, slot[r] # "none", Ends(r, v)
  PROVE  /\ Ledger' /\ Commands' /\ crossed' = FALSE /\ PendingSeqs' \subseteq PendingSeqs
         /\ \A q \in Requests : slot[q] # "none" => slot'[q] # "none"
<1>1. Ledger /\ Commands /\ crossed = FALSE
  BY Zenon DEF CommandInv
<1>2. SequenceOf[r] \in Seqs
  BY Zenon DEF Requests, Seqs, Range
<1>3. CASE pend[SequenceOf[r]] = 0
  <2>1. UNCHANGED <<book, slot>> /\ crossed' = crossed /\ slot' = slot
    BY <1>3, Zenon DEF Ends
  <2> QED BY <1>1, <2>1, BookUnchanged, Zenon
<1>4. CASE pend[SequenceOf[r]] # 0
  <2>1. PICK s \in Seqs : s = SequenceOf[r]
    BY <1>2, Zenon
  <2>2. /\ pend' = [pend EXCEPT ![s] = 0] /\ slot' = [slot EXCEPT ![pend[s]] = v] /\ Retire(<<s>>)
        /\ pend[s] # 0
    BY <1>4, <2>1, Zenon DEF Ends
  <2>7. crossed' = (crossed \/ (pend[s] # r /\ retires - ended[s] < RetiredLimit))
    BY <1>4, <2>1, Zenon DEF Ends
  <2>3. Ledger' /\ Commands' /\ \A q \in Requests : slot[q] # "none" => slot'[q] # "none"
    BY <1>1, <2>2, OneEnds, Zenon
  <2>4. ASSUME pend[s] # r PROVE ~(retires - ended[s] < RetiredLimit)
    <3>1. ended[s] # 0 /\ retires - ended[s] >= RetiredLimit
      BY <1>1, <1>4, <2>1, <2>4, Zenon DEF Commands
    <3>2. retires \in Nat /\ ended[s] \in Nat /\ RetiredLimit \in Nat
      BY <1>1, BridgeAssumption, Zenon DEF Ledger
    <3> QED BY <3>1, <3>2
  <2>5. crossed' = FALSE
    BY <1>1, <2>4, <2>7, Zenon
  <2>6. PendingSeqs' \subseteq PendingSeqs
    BY <1>1, <2>2, Zenon DEF PendingSeqs, Commands
  <2> QED BY <2>3, <2>5, <2>6, Zenon
<1> QED BY <1>3, <1>4, Zenon

\* cancel_command ends what is pending on the request's sequence with an error.
LEMMA CancelEnds ==
  ASSUME NEW r \in Requests, Cancel(r)
  PROVE  Ends(r, "err")
BY Zenon DEF Cancel, Ends

\* handle_frame of a reply ends what is pending on its sequence with the reply or an error.
LEMMA ReplyEnds ==
  ASSUME NEW r \in Requests, NEW f \in BOOLEAN, TakeReply(Reply(r, f))
  PROVE  Ends(r, IF f THEN "ok" ELSE "err")
<1>1. Reply(r, f)[2] = r
  BY Zenon DEF Reply
<1>2. Reply(r, f)[3] = f
  BY Zenon DEF Reply
<1> QED BY <1>1, <1>2, Zenon DEF TakeReply, Ends

\* Handlers and spawned cancels come from one another only, once a command is sent.
LEMMA PartiesKept ==
  ASSUME Parties, \A r \in Requests : slot[r] # "none" => slot'[r] # "none",
         at' \in [Requests -> {"new", "sent", "cancel", "over"}], cancels' \subseteq Requests,
         unanswered' \subseteq unanswered,
         \A r \in Requests : at'[r] \in {"sent", "cancel"} \/ r \in cancels'
                             => at[r] \in {"sent", "cancel"} \/ r \in cancels
  PROVE  Parties'
BY Zenon DEF Parties

\* A step that touches neither commands nor reads.
LEMMA CommandsQuiet ==
  ASSUME CommandInv, UNCHANGED <<book, slot, crossed, at, cancels, unanswered, inbound, carry>>,
         link' # "Closed" \/ link' = link
  PROVE  CommandInv'
<1>1. Ledger /\ Commands /\ Parties /\ Reads /\ crossed' = FALSE /\ (link = "Closed" => PendingSeqs = {})
  BY Zenon DEF CommandInv
<1>2. slot' = slot /\ carry' \in EventFrames \cup {None} /\ inbound' = inbound
  BY <1>1, Zenon DEF Reads
<1>3. Ledger' /\ Commands' /\ PendingSeqs' = PendingSeqs
  BY <1>1, BookUnchanged, Zenon
<1>4. Reads'
  BY <1>1, <1>2, ReadsKept, Zenon
<1>5. Parties'
  BY <1>1, Zenon DEF Parties
<1> QED BY <1>1, <1>3, <1>4, <1>5, Zenon DEF CommandInv

\* send_command, refused or sent.
LEMMA SendCommandStep ==
  ASSUME CommandInv, NEW r \in Requests, SendCommand(r)
  PROVE  CommandInv'
<1>1. Ledger /\ Commands /\ Parties /\ Reads /\ crossed' = FALSE /\ (link = "Closed" => PendingSeqs = {})
  BY Zenon DEF CommandInv, SendCommand
<1>2. /\ inbound' = inbound /\ carry' = carry /\ link' = link /\ cancels' = cancels
      /\ retired' = retired /\ ended' = ended /\ retires' = retires /\ at[r] = "new"
  BY Zenon DEF SendCommand, wire
<1>3. PICK s \in Seqs : s = SequenceOf[r]
  BY Zenon DEF Requests, Seqs, Range
<1>4. CASE pend[s] # 0 \/ Contains(retired, s) \/ link # "Connected"
  <2>1. at' = [at EXCEPT ![r] = "over"] /\ UNCHANGED <<pend, slot, unanswered>>
    BY <1>3, <1>4, Zenon DEF SendCommand
  <2>2. UNCHANGED <<book, slot>>
    BY <1>2, <2>1, Zenon DEF book
  <2>3. Ledger' /\ Commands' /\ PendingSeqs' = PendingSeqs
    BY <1>1, <2>2, BookUnchanged, Zenon
  <2>4. Reads'
    BY <1>1, <1>2, <2>1, ReadsKept, Zenon DEF Reads
  <2>5. Parties'
    BY <1>1, <1>2, <2>1, Zenon DEF Parties
  <2> QED BY <1>1, <1>2, <2>3, <2>4, <2>5, Zenon DEF CommandInv
<1>5. CASE ~(pend[s] # 0 \/ Contains(retired, s) \/ link # "Connected")
  <2>1. /\ unanswered' = unanswered \cup {r} /\ pend' = [pend EXCEPT ![s] = r]
        /\ slot' = [slot EXCEPT ![r] = "open"] /\ at' = [at EXCEPT ![r] = "sent"]
    BY <1>3, <1>5, Zenon DEF SendCommand
  <2>2. /\ pend' \in [Seqs -> Requests \cup {0}]
        /\ \A t \in Seqs : pend'[t] = IF t = s THEN r ELSE pend[t]
        /\ slot' \in [Requests -> {"none", "open", "ok", "err"}]
        /\ \A q \in Requests : slot'[q] = IF q = r THEN "open" ELSE slot[q]
    BY <1>1, <2>1, Zenon DEF Commands
  <2>3. Ledger'
    BY <1>1, <1>2, Zenon DEF Ledger
  <2>4. ended[s] # 0 => retires - ended[s] >= RetiredLimit
    <3>1. /\ ended[s] \in Nat /\ retires \in Nat /\ Len(retired) \in Nat /\ Len(retired) <= retires
          /\ (Len(retired) = retires \/ Len(retired) >= RetiredLimit) /\ ended[s] <= retires
          /\ (ended[s] > retires - Len(retired) => retired[ended[s] - (retires - Len(retired))] = s)
      BY <1>1 DEF Ledger
    <3>2. \A i \in 1..Len(retired) : retired[i] # s
      BY <1>5, Zenon DEF Contains
    <3>3. ended[s] > retires - Len(retired) =>
            ended[s] - (retires - Len(retired)) \in 1..Len(retired)
      BY <3>1
    <3>4. ~(ended[s] > retires - Len(retired))
      BY <3>1, <3>2, <3>3, Zenon
    <3> QED BY <3>1, <3>4, BridgeAssumption
  <2>5. \A t \in Seqs : pend'[t] # 0 /\ ended'[t] # 0 => retires' - ended'[t] >= RetiredLimit
    BY <1>1, <1>2, <2>2, <2>4, Zenon DEF Commands
  <2>6. ASSUME NEW q \in Requests, slot'[q] # "none"
        PROVE  pend'[SequenceOf[q]] = q \/ ended'[SequenceOf[q]] # 0
    <3>1. SequenceOf[q] \in Seqs /\ q # 0
      BY BridgeAssumption DEF Requests, Seqs, Range
    <3>2. CASE q = r
      BY <1>3, <2>2, <3>2, Zenon
    <3>3. CASE q # r
      BY <1>1, <1>2, <1>5, <2>2, <2>6, <3>1, <3>3, Zenon DEF Commands
    <3> QED BY <3>2, <3>3, Zenon
  <2>7. \A t \in Seqs : pend'[t] # 0 => SequenceOf[pend'[t]] = t
    BY <1>1, <1>3, <2>2, Zenon DEF Commands
  <2>8. Commands'
    BY <2>2, <2>5, <2>6, <2>7, Zenon DEF Commands
  <2>9. \A q \in Requests : slot[q] # "none" => slot'[q] # "none"
    BY <2>2, Zenon
  <2>10. Reads'
    BY <1>1, <1>2, <2>9, ReadsKept, Zenon DEF Reads
  <2>11. Parties'
    BY <1>1, <1>2, <2>1, <2>2 DEF Parties
  <2>12. link' # "Closed"
    BY <1>2, <1>5, Zenon
  <2> QED BY <1>1, <2>3, <2>8, <2>10, <2>11, <2>12, Zenon DEF CommandInv
<1> QED BY <1>4, <1>5, Zenon

\* The handlers' other steps, and the cancel a dropped guard spawns.
LEMMA HandlerSteps ==
  ASSUME CommandInv, NEW r \in Requests,
         CommandReplied(r) \/ CommandGivenUp(r) \/ CommandCancelled(r) \/ HandlerDropped(r)
           \/ SpawnedCancel(r)
  PROVE  CommandInv'
<1>1. Ledger /\ Commands /\ Parties /\ Reads /\ crossed = FALSE /\ (link = "Closed" => PendingSeqs = {})
  BY Zenon DEF CommandInv
<1>2. /\ inbound' = inbound /\ carry' = carry /\ link' = link /\ unanswered' = unanswered
  BY Zenon DEF CommandReplied, CommandGivenUp, CommandCancelled, HandlerDropped, SpawnedCancel, wire, device
<1>3. CASE CommandReplied(r) \/ CommandGivenUp(r) \/ HandlerDropped(r)
  <2>1. UNCHANGED <<book, slot>> /\ slot' = slot /\ crossed' = crossed
    BY <1>3, Zenon DEF CommandReplied, CommandGivenUp, HandlerDropped
  <2>2. /\ at' \in [Requests -> {"new", "sent", "cancel", "over"}] /\ cancels' \subseteq Requests
        /\ \A q \in Requests : at'[q] \in {"sent", "cancel"} \/ q \in cancels'
                               => at[q] \in {"sent", "cancel"} \/ q \in cancels
    <3>1. CASE CommandReplied(r)
      BY <1>1, <3>1, Zenon DEF CommandReplied, Parties
    <3>2. CASE CommandGivenUp(r)
      BY <1>1, <3>2, Zenon DEF CommandGivenUp, Parties
    <3>3. CASE HandlerDropped(r)
      BY <1>1, <3>3, Zenon DEF HandlerDropped, Parties
    <3> QED BY <1>3, <3>1, <3>2, <3>3, Zenon
  <2>3. Parties'
    BY <1>1, <1>2, <2>1, <2>2, PartiesKept, Zenon
  <2>4. Reads'
    BY <1>1, <1>2, <2>1, ReadsKept, Zenon DEF Reads
  <2>5. Ledger' /\ Commands' /\ PendingSeqs' = PendingSeqs
    BY <1>1, <2>1, BookUnchanged, Zenon
  <2> QED BY <1>1, <1>2, <2>1, <2>3, <2>4, <2>5, Zenon DEF CommandInv
<1>4. CASE CommandCancelled(r) \/ SpawnedCancel(r)
  <2>1. slot[r] # "none" /\ Cancel(r)
    BY <1>1, <1>4, Zenon DEF CommandCancelled, SpawnedCancel, Parties
  <2>2. /\ Ledger' /\ Commands' /\ crossed' = FALSE /\ PendingSeqs' \subseteq PendingSeqs
        /\ \A q \in Requests : slot[q] # "none" => slot'[q] # "none"
    <3>1. Ends(r, "err")
      BY <2>1, CancelEnds, Zenon
    <3>2. "err" \in {"ok", "err"}
      BY Zenon
    <3> QED BY <2>1, <3>1, <3>2, EndsStep, Zenon
  <2>3. /\ at' \in [Requests -> {"new", "sent", "cancel", "over"}] /\ cancels' \subseteq Requests
        /\ \A q \in Requests : at'[q] \in {"sent", "cancel"} \/ q \in cancels'
                               => at[q] \in {"sent", "cancel"} \/ q \in cancels
    BY <1>1, <1>4, Zenon DEF CommandCancelled, SpawnedCancel, Parties
  <2>4. Parties'
    BY <1>1, <1>2, <2>2, <2>3, PartiesKept, Zenon
  <2>5. Reads'
    BY <1>1, <1>2, <2>2, ReadsKept, Zenon DEF Reads
  <2>6. link' = "Closed" => PendingSeqs' = {}
    BY <1>1, <1>2, <2>2, Zenon
  <2> QED BY <2>2, <2>4, <2>5, <2>6, Zenon DEF CommandInv
<1> QED BY <1>3, <1>4, Zenon

\* A whole frame of the device: a reply to a command it has received, or event n.
LEMMA MessageFacts ==
  ASSUME Parties, NEW n \in Nat, NEW x \in Messages(n)
  PROVE  /\ x \in Frame \ (Heads \cup {Drop, <<"rest">>})
         /\ \A r \in Requests, f \in BOOLEAN : x = Reply(r, f) => slot[r] # "none"
         /\ \A m \in Nat : x = Event(m) => m = n
<1>1. CASE x \in {Reply(r, f) : r \in unanswered, f \in BOOLEAN}
  <2>1. PICK r \in unanswered, f \in BOOLEAN : x = Reply(r, f)
    BY <1>1
  <2>2. r \in Requests /\ slot[r] # "none"
    BY <2>1, Zenon DEF Parties
  <2>3. \A q \in Requests, g \in BOOLEAN : x = Reply(q, g) => q = r
    BY <2>1, Zenon DEF Reply
  <2>4. x \in ReplyFrames /\ x[1] = "reply"
    BY <2>1, <2>2 DEF ReplyFrames, Reply
  <2>5. x \notin Heads \cup {Drop, <<"rest">>} /\ \A m \in Nat : x # Event(m)
    BY <2>4 DEF Heads, Drop, Event
  <2> QED BY <2>2, <2>3, <2>4, <2>5, Zenon DEF Frame
<1>2. CASE x \in {Event(n), Final, Bad, Oversized}
  <2>1. x \in Frame /\ x[1] \in {"event", "final", "bad", "oversized"}
    BY <1>2 DEF Frame, EventFrames, Others, Event, Final, Bad, Oversized
  <2>2. x \notin Heads \cup {Drop, <<"rest">>}
    BY <2>1 DEF Heads, Drop
  <2>3. \A q \in Requests, g \in BOOLEAN : x # Reply(q, g)
    BY <2>1 DEF Reply
  <2>4. \A m \in Nat : x = Event(m) => m = n
    BY <1>2 DEF Event, Final, Bad, Oversized
  <2> QED BY <2>1, <2>2, <2>3, <2>4, Zenon
<1> QED BY <1>1, <1>2 DEF Messages

\* What the device prepares: replies to commands it has received, whole or half frames.
LEMMA DeviceSteps ==
  ASSUME CommandInv, reads \in Nat, DeviceSends \/ DeviceSendsHalf \/ DeviceSendsRest \/ DeviceDrops
  PROVE  CommandInv'
<1>1. Ledger /\ Commands /\ Parties /\ Reads /\ crossed = FALSE /\ (link = "Closed" => PendingSeqs = {})
  BY Zenon DEF CommandInv
<1>2. /\ UNCHANGED <<book, slot>> /\ slot' = slot /\ carry' = carry /\ link' = link
      /\ at' = at /\ cancels' = cancels /\ crossed' = crossed
  BY DEF DeviceSends, DeviceSendsHalf, DeviceSendsRest, DeviceDrops, cmdvars
<1>3. unanswered' \subseteq unanswered
  BY DEF DeviceSends, DeviceSendsHalf, DeviceSendsRest, DeviceDrops
<1>4. Parties'
  BY <1>1, <1>2, <1>3, PartiesKept, Zenon DEF Parties
<1>5. ASSUME NEW ms, ReadOk(ms), Known(ms), inbound' = Append(inbound, ms) PROVE CommandInv'
  <2>1. Reads'
    BY <1>1, <1>2, <1>5, ReadsAdded, Zenon
  <2>2. Ledger' /\ Commands' /\ PendingSeqs' = PendingSeqs
    BY <1>1, <1>2, BookUnchanged, Zenon
  <2> QED BY <1>1, <1>2, <1>4, <2>1, <2>2, Zenon DEF CommandInv
<1>6. ASSUME NEW x \in Heads \cup {Drop, <<"rest">>} PROVE ReadOk(<<x>>) /\ Known(<<x>>)
  <2>1. x \in Frame /\ x[1] # "reply"
    BY DEF Frame, Others, Heads, Drop
  <2>2. <<x>> \in Seq(Frame) /\ Len(<<x>>) = 1 /\ <<x>>[1] = x /\ \A i \in 1..Len(<<x>>) : i = 1
    BY <2>1
  <2>3. Known(<<x>>)
    BY <2>1, <2>2 DEF Known, Reply
  <2>4. ReadOk(<<x>>)
    BY <2>1, <2>2 DEF ReadOk, Replies
  <2> QED BY <2>3, <2>4, Zenon
<1>7. CASE DeviceSends
  <2>1. PICK ms \in {<<a>> : a \in Messages(2 * reads)}
                    \cup {<<a, b>> : a \in Messages(2 * reads) \ {Oversized}, b \in Messages(2 * reads + 1)} :
          (\A i, j \in Replies(ms) : i = j) /\ inbound' = Append(inbound, ms)
    BY <1>7 DEF DeviceSends
  <2>2. ASSUME NEW n \in Nat, NEW x \in Messages(n)
        PROVE  /\ x \in Frame \ (Heads \cup {Drop, <<"rest">>})
               /\ \A r \in Requests, f \in BOOLEAN : x = Reply(r, f) => slot[r] # "none"
    <3>1. Parties
      BY <1>1
    <3> QED BY <3>1, MessageFacts
  <2>3. 2 * reads \in Nat /\ 2 * reads + 1 \in Nat
    OBVIOUS
  <2>4. CASE ms \in {<<a>> : a \in Messages(2 * reads)}
    <3>1. PICK a \in Messages(2 * reads) : ms = <<a>>
      BY <2>4
    <3>2. a \in Frame /\ \A r \in Requests, f \in BOOLEAN : a = Reply(r, f) => slot[r] # "none"
      BY <2>2, <2>3
    <3>3. ms \in Seq(Frame) /\ Len(ms) = 1 /\ \A i \in 1..Len(ms) : ms[i] = a
      BY <3>1, <3>2
    <3>4. ReadOk(ms) /\ Known(ms)
      BY <2>1, <3>2, <3>3 DEF ReadOk, Known
    <3> QED BY <1>5, <2>1, <3>4
  <2>5. CASE ms \in {<<a, b>> : a \in Messages(2 * reads) \ {Oversized}, b \in Messages(2 * reads + 1)}
    <3>1. PICK a \in Messages(2 * reads), b \in Messages(2 * reads + 1) : ms = <<a, b>>
      BY <2>5
    <3>2. /\ {a, b} \subseteq Frame \ (Heads \cup {Drop, <<"rest">>})
          /\ \A x \in {a, b}, r \in Requests, f \in BOOLEAN : x = Reply(r, f) => slot[r] # "none"
      BY <2>2, <2>3
    <3>3. ms \in Seq(Frame) /\ Len(ms) = 2 /\ \A i \in 1..Len(ms) : ms[i] \in {a, b}
      BY <3>1, <3>2
    <3>4. \A i \in {1, 2} : ms[i] \in {a, b}
      BY <3>1
    <3>5. ReadOk(ms) /\ Known(ms)
      BY <2>1, <3>2, <3>3, <3>4 DEF ReadOk, Known
    <3> QED BY <1>5, <2>1, <3>5
  <2> QED BY <2>1, <2>4, <2>5
<1>8. CASE DeviceSendsHalf
  <2>1. inbound' = Append(inbound, <<<<"head", Event(2 * reads)>>>>) /\ 2 * reads \in Nat
    BY <1>8 DEF DeviceSendsHalf
  <2>2. <<"head", Event(2 * reads)>> \in Heads
    BY <2>1, Zenon DEF Heads
  <2>3. ReadOk(<<<<"head", Event(2 * reads)>>>>) /\ Known(<<<<"head", Event(2 * reads)>>>>)
    BY <1>6, <2>2, Zenon
  <2> QED BY <1>5, <2>1, <2>3, Zenon
<1>9. CASE DeviceSendsRest \/ DeviceDrops
  <2>1. inbound' = Append(inbound, <<<<"rest">>>>) \/ inbound' = Append(inbound, <<Drop>>)
    BY <1>9, Zenon DEF DeviceSendsRest, DeviceDrops
  <2>2. /\ ReadOk(<<<<"rest">>>>) /\ Known(<<<<"rest">>>>)
        /\ ReadOk(<<Drop>>) /\ Known(<<Drop>>)
    BY <1>6, Zenon
  <2> QED BY <1>5, <2>1, <2>2, Zenon
<1> QED BY <1>7, <1>8, <1>9, Zenon

\* recv_event with bytes: a reply among them ends a command.
LEMMA RecvBytesCommands ==
  ASSUME CommandInv, RecvBytes
  PROVE  CommandInv'
<1>1. Ledger /\ Commands /\ Parties /\ Reads /\ crossed = FALSE /\ (link = "Closed" => PendingSeqs = {})
  BY Zenon DEF CommandInv
<1>2. PICK ms : ms = Head(inbound)
  BY Zenon
<1>3. PICK fs : fs = Frames(ms)
  BY Zenon
<1>4. PICK i : i = CHOOSE j \in Replies(fs) : TRUE
  BY Zenon
<1>5. /\ inbound # <<>> /\ ms # <<Drop>> /\ inbound' = Tail(inbound) /\ carry' = CarryAfter(ms)
      /\ link' = link /\ at' = at /\ cancels' = cancels /\ unanswered' = unanswered
  BY <1>2, Zenon DEF RecvBytes, device
<1>6. IF Replies(fs) = {} THEN UNCHANGED <<book, slot, crossed>> ELSE TakeReply(fs[i])
  BY <1>2, <1>3, <1>4, Zenon DEF RecvBytes
<1>7. ReadOk(ms) /\ Known(ms)
  <2>1. Len(inbound) \in Nat \ {0} /\ Head(inbound) = inbound[1]
    BY <1>1, <1>5 DEF Reads
  <2> QED BY <1>1, <1>2, <2>1 DEF Reads
<1>8. carry' \in EventFrames \cup {None}
  <2>1. ms[1] \in Frame
    BY <1>7 DEF ReadOk
  <2>2. ASSUME ms[1][1] = "head" PROVE ms[1][2] \in EventFrames
    <3>1. ms[1] \in Heads
      BY <2>1, <2>2 DEF Frame, ReplyFrames, Reply, EventFrames, Event, Others, Final, Bad, Oversized, Drop
    <3>2. PICK n \in Nat : ms[1] = <<"head", Event(n)>>
      BY <3>1, Zenon DEF Heads
    <3> QED BY <3>2 DEF EventFrames
  <2> QED BY <1>5, <2>2, Zenon DEF CarryAfter
<1>9. /\ Ledger' /\ Commands' /\ crossed' = FALSE /\ PendingSeqs' \subseteq PendingSeqs
      /\ \A q \in Requests : slot[q] # "none" => slot'[q] # "none"
  <2>1. CASE Replies(fs) = {}
    <3>1. UNCHANGED <<book, slot>> /\ crossed' = crossed /\ slot' = slot
      BY <1>6, <2>1, Zenon
    <3> QED BY <1>1, <3>1, BookUnchanged, Zenon
  <2>2. CASE Replies(fs) # {}
    <3>1. i \in Replies(fs)
      BY <1>4, <2>2, Zenon
    <3>2. /\ fs \in Seq(Takeable)
          /\ fs = <<carry>> \/ (Len(fs) <= Len(ms) /\ \A j \in 1..Len(fs) : fs[j] = ms[j])
      BY <1>1, <1>3, <1>5, <1>7, FramesFacts, Zenon
    <3>3. i \in 1..Len(fs) /\ fs[i] \in Takeable /\ fs[i][1] = "reply"
      BY <3>1, <3>2 DEF Replies
    <3>4. fs[i] \in ReplyFrames
      BY <3>3 DEF Takeable, EventFrames, Event, Final, None
    <3>5. PICK r \in Requests, f \in BOOLEAN : fs[i] = Reply(r, f)
      BY <3>4 DEF ReplyFrames
    <3>6. fs[i] = ms[i] /\ i \in 1..Len(ms)
      <4>1. carry[1] # "reply"
        BY <1>1 DEF Reads, EventFrames, Event, None
      <4>2. ASSUME fs = <<carry>> PROVE FALSE
        BY <3>3, <4>1, <4>2
      <4>3. Len(fs) \in Nat /\ Len(ms) \in Nat
        BY <1>7, <3>2 DEF ReadOk
      <4> QED BY <3>2, <3>3, <4>2, <4>3
    <3>7. slot[r] # "none"
      <4>1. ms[i] = Reply(r, f)
        BY <3>5, <3>6, Zenon
      <4> QED BY <1>7, <3>6, <4>1, Zenon DEF Known
    <3>8. Ends(r, IF f THEN "ok" ELSE "err")
      <4>1. TakeReply(Reply(r, f))
        BY <1>6, <2>2, <3>5, Zenon
      <4> QED BY <4>1, ReplyEnds, Zenon
    <3>9. PICK v \in {"ok", "err"} : v = IF f THEN "ok" ELSE "err"
      BY Zenon
    <3>10. Ends(r, v)
      BY <3>8, <3>9, Zenon
    <3> QED BY <3>7, <3>10, EndsStep, Zenon
  <2> QED BY <2>1, <2>2, Zenon
<1>10. Reads'
  BY <1>1, <1>5, <1>8, <1>9, ReadsTaken, Zenon
<1>11. Parties'
  BY <1>1, <1>5, <1>9, PartiesKept, Zenon DEF Parties
<1>12. link' = "Closed" => PendingSeqs' = {}
  BY <1>1, <1>5, <1>9, Zenon
<1> QED BY <1>9, <1>10, <1>11, <1>12, Zenon DEF CommandInv

\* A lost link and close() drain the commands.
LEMMA DrainCommands ==
  ASSUME CommandInv, RecvDrop \/ HostClose
  PROVE  CommandInv'
<1>1. Ledger /\ Commands /\ Parties /\ Reads /\ crossed = FALSE
  BY Zenon DEF CommandInv
<1>2. PICK c \in Orders : EndAll(c)
  BY Zenon DEF RecvDrop, HostClose
<1>3. /\ Ledger' /\ Commands' /\ PendingSeqs' = {}
      /\ \A r \in Requests : slot[r] # "none" => slot'[r] # "none"
  BY <1>1, <1>2, AllEnd, Zenon
<1>4. at' = at /\ cancels' = cancels /\ unanswered' = unanswered /\ crossed' = crossed
  BY Zenon DEF RecvDrop, HostClose, device
<1>5. Parties'
  BY <1>1, <1>3, <1>4, PartiesKept, Zenon DEF Parties
<1>6. Reads'
  <2>1. CASE RecvDrop
    <3>1. inbound # <<>> /\ inbound' = Tail(inbound) /\ carry' \in EventFrames \cup {None}
      BY <2>1, Zenon DEF RecvDrop
    <3> QED BY <1>1, <1>3, <3>1, ReadsTaken, Zenon
  <2>2. CASE HostClose
    <3>1. inbound' = inbound /\ carry' \in EventFrames \cup {None}
      BY <1>1, <2>2, Zenon DEF HostClose, Reads
    <3> QED BY <1>1, <1>3, <3>1, ReadsKept, Zenon
  <2> QED BY <2>1, <2>2, Zenon
<1> QED BY <1>1, <1>3, <1>4, <1>5, <1>6, Zenon DEF CommandInv
=============================================================================
